---- MODULE Spec2Model ----
(***************************************************************************)
(* Model of the SSA -> LIR backend of wasmcraft2:                           *)
(*   src/src/ssa/lir_emitter.rs  (LirFuncBuilder, lower_block, emit_copy,   *)
(*                                lower, convert)                           *)
(*   src/src/ssa/reg_alloc.rs    (NoopRegAlloc, FullRegAlloc, InterfGraph,  *)
(*                                RegisterSet, try_merge, try_merge_term)   *)
(* Four state machines share this module:                                   *)
(*   SpecCopy   emit_copy followed by the execution of the emitted moves;   *)
(*   SpecRA     FullRegAlloc::analyze, one coalescing attempt per step;     *)
(*   Spec       convert/lower/lower_block over a whole SSA program,         *)
(*              followed by the execution of the emitted control flow;      *)
(*   SpecInstr  lower_block on one SSA instruction under a given register   *)
(*              assignment, followed by the execution of the emitted        *)
(*              instructions on 32-bit register values.                     *)
(***************************************************************************)
EXTENDS Integers, Sequences, FiniteSets, TLC

VARIABLES
    \* ---- SpecCopy: one call of emit_copy and the run of its output
    cp_pc,          \* "idle" | "emit" | "exec" | "done"
    cp_in,          \* in_params  : Seq(SSA var id)   (jump arguments)
    cp_out,         \* out_params : Seq(SSA var id)   (target block parameters)
    cp_wide,        \* the SSA var ids whose type is I64/F64
    cp_ra,          \* the register allocator (mode, map, func, temp, const_pool)
    cp_block,       \* the Vec<LirInstr> emit_copy appended to
    cp_regs,        \* register file during execution
    cp_ip,          \* index of the next instruction to execute
    \* ---- SpecRA: FullRegAlloc::analyze on one SSA function
    ra_pc,          \* "idle" | "merge" | "done" | "panic"
    ra_func,        \* the SsaFunction under analysis
    ra_sets,        \* RegisterSet: Seq of MergedRegister [members, live_range]
    ra_pos,         \* index of the next coalescing attempt of the function
    \* ---- Spec: convert over an SSA program
    ssa_program,    \* [funcs |-> Seq(SsaFunction), tables |-> Seq(Seq(Option func))]
    suspending,       \* the functions containing an operation that may suspend
    regalloc,       \* ctx.regalloc : "Noop" | "Full"
    phase,          \* "idle" | "lower" | "done" | "panic" | "exec"
    tasks,          \* per function: status, position in the SSA function, emitter state, result
    lir_program,    \* LirProgram [code, constants] once merged
    run,            \* "first" | "second": which lowering of the same input this is
    prev,           \* the LirProgram of the first lowering
    ex,             \* the machine running the emitted control flow
    \* ---- SpecInstr: one SSA instruction lowered and run
    si_pc,          \* "idle" | "emit" | "exec" | "done" | "panic"
    si_instr,       \* the SsaInstr
    si_wide,        \* the SSA var ids whose type is I64
    si_static,      \* static_values: SSA var id -> known constant
    si_vals,        \* the value every work register holds before the sequence
    si_st,          \* emitter state: [ra, block, panic]
    si_regs,        \* the registers written so far and their values
    si_ip           \* index of the next instruction to execute

cpVars == <<cp_pc, cp_in, cp_out, cp_wide, cp_ra, cp_block, cp_regs, cp_ip>>

raVars == <<ra_pc, ra_func, ra_sets, ra_pos>>

lwVars == <<ssa_program, suspending, regalloc, phase, tasks, lir_program, run, prev, ex>>

siVars == <<si_pc, si_instr, si_wide, si_static, si_vals, si_st, si_regs, si_ip>>

vars == <<cpVars, raVars, lwVars, siVars>>

\* the state machines that are not running
CopyIdle ==
    /\ cp_pc = "idle" /\ cp_in = <<>> /\ cp_out = <<>> /\ cp_wide = {}
    /\ cp_ra = <<>> /\ cp_block = <<>> /\ cp_regs = <<>> /\ cp_ip = 0

RAIdle ==
    /\ ra_pc = "idle" /\ ra_func = <<>> /\ ra_sets = <<>> /\ ra_pos = 0

LowerIdle ==
    /\ ssa_program = <<>> /\ suspending = {} /\ regalloc = "Noop" /\ phase = "idle"
    /\ tasks = <<>> /\ lir_program = <<>> /\ run = "first" /\ prev = <<>> /\ ex = <<>>

InstrIdle ==
    /\ si_pc = "idle" /\ si_instr = <<>> /\ si_wide = {} /\ si_static = <<>>
    /\ si_vals = <<>> /\ si_st = <<>> /\ si_regs = <<>> /\ si_ip = 0

-----------------------------------------------------------------------------
(* Bounds of the model *)

\* most pairs handed to one emit_copy (3 gives the cycle a->b, b->c, c->a)
MaxPairs == 3

-----------------------------------------------------------------------------
(* Generic helpers *)

Min(S) == CHOOSE x \in S : \A y \in S : x <= y

Range(s) == {s[i] : i \in 1..Len(s)}

RECURSIVE Flatten(_)
Flatten(ss) ==
    IF ss = <<>> THEN <<>>
    ELSE IF Len(ss) = 1 THEN ss[1]
    ELSE Flatten(SubSeq(ss, 1, Len(ss) \div 2))
            \o Flatten(SubSeq(ss, Len(ss) \div 2 + 1, Len(ss)))

-----------------------------------------------------------------------------
(* Registers (crate::lir::Register as used by the emitter)                  *)

Work(func, id, half) == [k |-> "Work", a |-> func, b |-> id, h |-> half]
Temp(idx)            == [k |-> "Temp", a |-> 0, b |-> idx, h |-> "Lo"]
TempHi(idx)          == [k |-> "Temp", a |-> 0, b |-> idx, h |-> "Hi"]
Param(idx, half)     == [k |-> "Param", a |-> 0, b |-> idx, h |-> half]
Return(idx, half)    == [k |-> "Return", a |-> 0, b |-> idx, h |-> half]
Const(v)             == [k |-> "Const", a |-> 0, b |-> v, h |-> "Lo"]
CondTaken            == [k |-> "CondTaken", a |-> 0, b |-> 0, h |-> "Lo"]

\* DoubleRegister: the pair (lo, hi)
DoubleWork(func, id) == <<Work(func, id, "Lo"), Work(func, id, "Hi")>>

\* first scratch index handed out by get_temp (temp: 1000 in both allocators)
FirstTemp == 1000

\* NoopRegAlloc::analyze
NoopRegAlloc(func) ==
    [mode |-> "Noop", map |-> <<>>, func |-> func, temp |-> FirstTemp, const_pool |-> {}]

\* the FullRegAlloc value built at the end of FullRegAlloc::analyze
FullRegAlloc(func, map) ==
    [mode |-> "Full", map |-> map, func |-> func, temp |-> FirstTemp, const_pool |-> {}]

\* RegAlloc::get : NoopRegAlloc uses the SSA id, FullRegAlloc the representative
ra_get(ra, v) ==
    IF ra.mode = "Noop" THEN Work(ra.func, v, "Lo")
    ELSE Work(ra.func, ra.map[v], "Lo")

\* RegAlloc::get_double
ra_get_double(ra, v) ==
    IF ra.mode = "Noop" THEN DoubleWork(ra.func, v)
    ELSE DoubleWork(ra.func, ra.map[v])

-----------------------------------------------------------------------------
(* LIR instructions needed by the parallel copy *)

\* LirInstr::Assign(dst, src), wrapped by if_cond for every condition of conds
AssignIf(dst, src, conds) == [op |-> "Assign", dst |-> dst, src |-> src, conds |-> conds]

-----------------------------------------------------------------------------
(* emit_copy (lir_emitter.rs 1214-1269)                                      *)

\* param_pairs: the (in, out) pairs whose registers differ
param_pairs(in_params, out_params, wide, ra) ==
    SelectSeq([i \in 1..Len(in_params) |-> <<in_params[i], out_params[i]>>],
              LAMBDA p : IF p[1] \in wide
                         THEN ra_get_double(ra, p[1]) # ra_get_double(ra, p[2])
                         ELSE ra_get(ra, p[1]) # ra_get(ra, p[2]))

\* reg_pairs: every 64-bit pair becomes its lo pair followed by its hi pair
reg_pairs(in_params, out_params, wide, ra) ==
    LET pp == param_pairs(in_params, out_params, wide, ra)
    IN  Flatten([i \in 1..Len(pp) |->
            IF pp[i][1] \in wide
            THEN << <<ra_get_double(ra, pp[i][1])[1], ra_get_double(ra, pp[i][2])[1]>>,
                    <<ra_get_double(ra, pp[i][1])[2], ra_get_double(ra, pp[i][2])[2]>> >>
            ELSE << <<ra_get(ra, pp[i][1]), ra_get(ra, pp[i][2])>> >>])

\* a plausible slip: the sources that are themselves written by some pair
need_tmp_src_written(rp) ==
    {rp[i][1] : i \in {j \in 1..Len(rp) : \E k \in 1..Len(rp) : rp[j][1] = rp[k][2]}}

\* need_tmp: the sources of the pairs whose destination is read by some pair
need_tmp(rp) ==
    {rp[i][1] : i \in {j \in 1..Len(rp) : \E k \in 1..Len(rp) : rp[j][2] = rp[k][1]}}

\* the scratch registers are written before the direct moves
copy_moves_saves_first(rp, nt, conds) ==
    Flatten([i \in 1..Len(rp) |->
        IF rp[i][1] \in nt THEN <<AssignIf(Temp(i - 1), rp[i][1], conds)>> ELSE <<>>])
    \o Flatten([i \in 1..Len(rp) |->
        IF rp[i][1] \notin nt THEN <<AssignIf(rp[i][2], rp[i][1], conds)>> ELSE <<>>])
    \o Flatten([i \in 1..Len(rp) |->
        IF rp[i][1] \in nt THEN <<AssignIf(rp[i][2], Temp(i - 1), conds)>> ELSE <<>>])

\* the three loops of emit_copy over reg_pairs; Temp indices are the 0-based
\* positions in reg_pairs
copy_moves(rp, nt, conds) ==
    Flatten([i \in 1..Len(rp) |->
        IF rp[i][1] \notin nt THEN <<AssignIf(rp[i][2], rp[i][1], conds)>> ELSE <<>>])
    \o Flatten([i \in 1..Len(rp) |->
        IF rp[i][1] \in nt THEN <<AssignIf(Temp(i - 1), rp[i][1], conds)>> ELSE <<>>])
    \o Flatten([i \in 1..Len(rp) |->
        IF rp[i][1] \in nt THEN <<AssignIf(rp[i][2], Temp(i - 1), conds)>> ELSE <<>>])

\* emit_copy
emit_copy(block, in_params, out_params, wide, ra, conds) ==
    block \o CHOOSE moves \in
                {copy_moves(rp, need_tmp(rp), conds) :
                    rp \in {reg_pairs(in_params, out_params, wide, ra)}} : TRUE

-----------------------------------------------------------------------------
(* Execution of the emitted moves.  A register initially holds a symbolic   *)
(* value, its own name, so the final contents say which initial value       *)
(* reached which register.                                                  *)

\* value read from a register; a register never written holds its initial value
RegVal(regs, r) == IF r \in DOMAIN regs THEN regs[r] ELSE r

\* one unconditional Assign
ExecAssign(regs, instr) ==
    [r \in (DOMAIN regs) \cup {instr.dst} |->
        IF r = instr.dst THEN RegVal(regs, instr.src) ELSE regs[r]]

-----------------------------------------------------------------------------
(* SpecCopy *)

CopyVarIds == 0..(MaxPairs - 1)

\* the maps FullRegAlloc can hand to the emitter here: no two variables merged,
\* or one pair {a, b} merged with representative Min
CopyMaps ==
    {[v \in CopyVarIds |-> IF v = ab[2] THEN ab[1] ELSE v] :
        ab \in {p \in CopyVarIds \X CopyVarIds : p[1] < p[2]}}

\* the registers written on behalf of the destinations
DstRegs(out_params, wide, ra) ==
    Flatten([i \in 1..Len(out_params) |->
        IF out_params[i] \in wide
        THEN <<ra_get_double(ra, out_params[i])[1], ra_get_double(ra, out_params[i])[2]>>
        ELSE <<ra_get(ra, out_params[i])>>])

Injective(s) == \A i, j \in 1..Len(s) : i # j => s[i] # s[j]

CopyInit ==
    /\ RAIdle /\ LowerIdle /\ InstrIdle
    /\ cp_pc = "emit"
    /\ cp_block = <<>>
    /\ cp_regs = <<>>
    /\ cp_ip = 1
    /\ \E n \in 0..MaxPairs : cp_out \in [1..n -> CopyVarIds]
    /\ Injective(cp_out)
    /\ cp_wide \in {{}, {v \in CopyVarIds : v % 2 = 1}, CopyVarIds}
    /\ cp_ra \in {NoopRegAlloc(0)} \cup {FullRegAlloc(0, m) : m \in CopyMaps}
    \* block parameters are distinct variables in distinct registers
    /\ Injective(DstRegs(cp_out, cp_wide, cp_ra))
    /\ cp_in \in [1..Len(cp_out) -> CopyVarIds]
    \* emit_copy asserts equal lengths and pairwise equal types
    /\ \A i \in 1..Len(cp_in) : (cp_in[i] \in cp_wide) <=> (cp_out[i] \in cp_wide)

CopyEmit ==
    /\ cp_pc = "emit"
    /\ cp_block' = emit_copy(cp_block, cp_in, cp_out, cp_wide, cp_ra, <<>>)
    /\ cp_pc' = "exec"
    /\ UNCHANGED <<cp_in, cp_out, cp_wide, cp_ra, cp_regs, cp_ip, raVars, lwVars, siVars>>

CopyExec ==
    /\ cp_pc = "exec"
    /\ cp_ip <= Len(cp_block)
    /\ cp_regs' = ExecAssign(cp_regs, cp_block[cp_ip])
    /\ cp_ip' = cp_ip + 1
    /\ UNCHANGED <<cp_pc, cp_in, cp_out, cp_wide, cp_ra, cp_block, raVars, lwVars, siVars>>

CopyFinish ==
    /\ cp_pc = "exec"
    /\ cp_ip > Len(cp_block)
    /\ cp_pc' = "done"
    /\ UNCHANGED <<cp_in, cp_out, cp_wide, cp_ra, cp_block, cp_regs, cp_ip, raVars, lwVars, siVars>>

CopyNext == CopyEmit \/ CopyExec \/ CopyFinish

SpecCopy == CopyInit /\ [][CopyNext]_vars

\* C1: once the sequence emitted by emit_copy has run, every destination
\* register holds the value its source register had before the sequence
\* started (both halves for a 64-bit pair), whatever the overlap between
\* sources and destinations.
C1_ParallelCopy ==
    cp_pc = "done" =>
        \A i \in 1..Len(cp_in) :
            IF cp_in[i] \in cp_wide
            THEN \A h \in 1..2 :
                    RegVal(cp_regs, ra_get_double(cp_ra, cp_out[i])[h])
                        = ra_get_double(cp_ra, cp_in[i])[h]
            ELSE RegVal(cp_regs, ra_get(cp_ra, cp_out[i])) = ra_get(cp_ra, cp_in[i])

\* a finished run of a three-cycle a->b, b->c, c->a in three distinct registers
C1_Witness ==
    /\ cp_pc = "done"
    /\ Len(cp_in) = 3
    /\ cp_wide = {}
    /\ cp_in[1] = cp_out[3] /\ cp_in[2] = cp_out[1] /\ cp_in[3] = cp_out[2]
    /\ Cardinality({ra_get(cp_ra, cp_out[i]) : i \in 1..3}) = 3
    /\ Len(cp_block) = 6


-----------------------------------------------------------------------------
(* SSA programs (src/src/ssa/mod.rs and the uses made of them by the        *)
(* emitter and the allocator)                                               *)
(*   BlockId        <<func, block>>                                         *)
(*   SsaBasicBlock  [params, body, term]                                    *)
(*   SsaFunction    [params, returns, wide, code], code an ordered list of  *)
(*                  [id |-> BlockId, blk |-> SsaBasicBlock]; wide is the    *)
(*                  set of variable ids of type I64/F64                     *)
(*   SsaVarOrConst  <<"Var", id>> or <<"Const", value>>                     *)
(*   JumpTarget     [label |-> BlockId, params |-> Seq(var id)]             *)

BlockId(func, block) == <<func, block>>

None == <<>>
Some(x) == <<x>>

Var(v) == <<"Var", v>>
Lit(c) == <<"Const", c>>
IsVar(o) == o[1] = "Var"

\* SsaVarOrConst::get_var as a set: the variable of the operand, if it is one
OperandVars(o) == IF IsVar(o) THEN {o[2]} ELSE {}

SeqToSet(s) == {s[i] : i \in 1..Len(s)}

\* SsaInstr::uses
InstrUses(instr) ==
    CASE instr.op \in {"I32Set", "I64Set", "LocalGet", "ParamGet"} -> {}
      [] instr.op \in {"Add", "Sub", "Mul", "RemU", "GtS", "GeS", "LtS", "LeS",
                       "GtU", "GeU", "LtU", "LeU", "Or"} ->
            OperandVars(instr.lhs) \cup OperandVars(instr.rhs)
      [] instr.op \in {"Assign", "Wrap", "Ctz", "Popcnt", "Extend32U"} ->
            OperandVars(instr.src)
      [] instr.op \in {"Store32"} -> {instr.src} \cup OperandVars(instr.addr)
      [] instr.op \in {"Load32U"} -> OperandVars(instr.addr)
      [] instr.op = "PrintInt" -> {instr.src}
      [] instr.op = "Call" -> SeqToSet(instr.params)
      [] instr.op = "CallIndirect" -> SeqToSet(instr.params) \cup {instr.table_entry}

\* SsaInstr::defs
InstrDefs(instr) ==
    CASE instr.op \in {"Store32", "PrintInt"} -> {}
      [] instr.op \in {"Call", "CallIndirect"} -> SeqToSet(instr.returns)
      [] OTHER -> {instr.dst}

\* the jump targets of a terminator, in order
TermTargets(term) ==
    CASE term.t = "Jump" -> <<term.target>>
      [] term.t = "BranchIf" -> <<term.true_target, term.false_target>>
      [] term.t = "BranchTable" -> <<term.default>> \o term.arms
      [] OTHER -> <<>>

\* SsaTerminator::successors
Successors(term) == {TermTargets(term)[i].label : i \in 1..Len(TermTargets(term))}

\* variables read by a terminator: conditions, jump arguments, returned values
TermUses(term) ==
    (IF term.t \in {"BranchIf", "BranchTable"} THEN {term.cond} ELSE {})
    \cup (IF term.t = "Return" THEN SeqToSet(term.vars) ELSE {})
    \cup UNION {SeqToSet(TermTargets(term)[i].params) : i \in 1..Len(TermTargets(term))}

\* SsaFunction::iter : the block ids in insertion order
FuncBlockIds(func) == [i \in 1..Len(func.code) |-> func.code[i].id]

\* SsaFunction::get
GetBlock(func, id) ==
    (CHOOSE e \in SeqToSet(func.code) : e.id = id).blk

HasBlock(func, id) == \E i \in 1..Len(func.code) : func.code[i].id = id

\* every variable mentioned by the function (NoopLivenessInfo::analyze(func).vars)
FuncVars(func) ==
    UNION {SeqToSet(func.code[i].blk.params)
           \cup TermUses(func.code[i].blk.term)
           \cup UNION {InstrUses(func.code[i].blk.body[j]) \cup InstrDefs(func.code[i].blk.body[j]) :
                        j \in 1..Len(func.code[i].blk.body)} :
           i \in 1..Len(func.code)}

-----------------------------------------------------------------------------
(* Liveness (spec section 4.1; ssa/liveness.rs is not part of the sources)  *)
(* Program point (b, i) of block b: i < len(body) is the point before       *)
(* instruction i, i = len(body) the point before the terminator.            *)

\* live before point i of a block, given the live-in sets of all blocks
RECURSIVE LiveBefore(_, _, _, _)
LiveBefore(func, blk, i, liveIn) ==
    IF i = Len(blk.body)
    THEN TermUses(blk.term)
         \cup UNION {liveIn[s] : s \in Successors(blk.term)}
    ELSE InstrUses(blk.body[i + 1])
         \cup (LiveBefore(func, blk, i + 1, liveIn) \ InstrDefs(blk.body[i + 1]))

\* live_in(B) = live before the first instruction, minus the block parameters
LiveInStep(func, liveIn) ==
    [b \in SeqToSet(FuncBlockIds(func)) |->
        LiveBefore(func, GetBlock(func, b), 0, liveIn) \ SeqToSet(GetBlock(func, b).params)]

RECURSIVE LiveInFix(_, _)
LiveInFix(func, liveIn) ==
    LET next == LiveInStep(func, liveIn)
    IN  IF next = liveIn THEN liveIn ELSE LiveInFix(func, next)

\* FullLivenessInfo::analyze: for every block the live set before every point
FullLivenessInfo(func) ==
    LET liveIn == LiveInFix(func, [b \in SeqToSet(FuncBlockIds(func)) |-> {}])
    IN  [b \in SeqToSet(FuncBlockIds(func)) |->
            [live_in |-> liveIn[b],
             before  |-> [i \in 0..Len(GetBlock(func, b).body) |->
                             LiveBefore(func, GetBlock(func, b), i, liveIn)]]]

\* LivenessInfo::live_out_body: the variables live right after instruction idx
\* of a block of the function
live_out_body(li, block_id, instr_idx) == li[block_id].before[instr_idx + 1]

\* what live_out_body can answer to a query (block_id, instr_idx).  For a block
\* of the function it is the live set above.  The description of the oracle
\* fixes no answer for an id that is not a block of the function (the id of a
\* continuation block): there the answer is any set of variables of the function.
live_out_answers(li, func_vars, block_id, instr_idx) ==
    IF block_id \in DOMAIN li
    THEN {live_out_body(li, block_id, instr_idx)}
    ELSE SUBSET func_vars

-----------------------------------------------------------------------------
(* Dominator tree (spec section 4.2; DomTree is not part of the sources)    *)

\* blocks reachable from `from` without passing through `avoid`
RECURSIVE ReachAvoiding(_, _, _)
ReachAvoiding(func, seen, avoid) ==
    LET next == seen \cup
                {s \in UNION {Successors(GetBlock(func, b).term) : b \in seen} : s # avoid}
    IN  IF next = seen THEN seen ELSE ReachAvoiding(func, next, avoid)

EntryBlock(func) == BlockId(func.code[1].id[1], 0)

\* DomTree::dominates(a, b): every path from the entry to b passes through a
dominates(func, a, b) ==
    \/ a = b
    \/ /\ a # EntryBlock(func) => b \notin ReachAvoiding(func, {EntryBlock(func)}, a)
       /\ b \in ReachAvoiding(func, {EntryBlock(func)}, BlockId(-1, -1))

-----------------------------------------------------------------------------
(* Call graph (spec section 4.5; CallGraph is not part of the sources)      *)

\* get_compatible_functions without the signature filter
get_compatible_functions_any(prog, table, param_tys, return_tys) == table

\* get_compatible_functions (lir_emitter.rs 56-73): per table slot, the function
\* index if its signature equals the call's parameter and return types
get_compatible_functions(prog, table, param_tys, return_tys) ==
    [i \in 1..Len(table) |->
        IF table[i] # None
           /\ prog.funcs[table[i][1] + 1].params = param_tys
           /\ prog.funcs[table[i][1] + 1].returns = return_tys
        THEN table[i] ELSE None]

\* flatten(): the Some(..) entries
FlattenOpt(opts) == {opts[i][1] : i \in {j \in 1..Len(opts) : opts[j] # None}}

VarTy(func, v) == IF v \in func.wide THEN "I64" ELSE "I32"

VarTys(func, vs) == [i \in 1..Len(vs) |-> VarTy(func, vs[i])]

FuncIds(prog) == 0..(Len(prog.funcs) - 1)

FuncInstrs(func) ==
    UNION {SeqToSet(func.code[i].blk.body) : i \in 1..Len(func.code)}

\* the direct callees of f: Call targets and signature-compatible table entries
Callees(prog, f) ==
    LET func == prog.funcs[f + 1]
    IN  {instr.function_index : instr \in {x \in FuncInstrs(func) : x.op = "Call"}}
        \cup UNION {FlattenOpt(get_compatible_functions(prog, prog.tables[instr.table_index + 1],
                                   VarTys(func, instr.params), VarTys(func, instr.returns))) :
                    instr \in {x \in FuncInstrs(func) : x.op = "CallIndirect"}}

RECURSIVE CalleeClosure(_, _)
CalleeClosure(prog, S) ==
    LET next == S \cup UNION {Callees(prog, f) : f \in S}
    IN  IF next = S THEN S ELSE CalleeClosure(prog, next)

\* CallGraph::may_call(callee, caller): the functions `callee` may transitively
\* call include `caller`
may_call(prog, callee, caller) ==
    caller \in CalleeClosure(prog, Callees(prog, callee))

\* CallGraph::is_single_tick(f): neither f nor anything it may call suspends
is_single_tick(prog, suspends, f) ==
    CalleeClosure(prog, {f}) \cap suspends = {}


-----------------------------------------------------------------------------
(* LIR instructions and terminators (crate::lir, as built by the emitter)   *)

\* every instruction but Assign: opcode, register operands, immediates
Lir(op, regs, imm) == [op |-> op, regs |-> regs, imm |-> imm]

LAssign(dst, src) == AssignIf(dst, src, <<>>)

\* the register operands of an instruction, conditions included
InstrRegs(instr) ==
    IF instr.op = "Assign"
    THEN {instr.dst, instr.src} \cup {instr.conds[i].reg : i \in 1..Len(instr.conds)}
    ELSE SeqToSet(instr.regs)

\* Condition::eq_zero / neq_zero / eq_const / NotMatches(reg, lo..=hi)
CondEqZero(reg)  == [c |-> "Matches", reg |-> reg, lo |-> 0, hi |-> 0]
CondNeqZero(reg) == [c |-> "NotMatches", reg |-> reg, lo |-> 0, hi |-> 0]
CondEqConst(reg, v) == [c |-> "Matches", reg |-> reg, lo |-> v, hi |-> v]
CondNotMatches(reg, lo, hi) == [c |-> "NotMatches", reg |-> reg, lo |-> lo, hi |-> hi]

LirJumpTarget(label, cmd_check) == [label |-> label, cmd_check |-> cmd_check]

TReturn == [t |-> "Return"]
TReturnToSaved == [t |-> "ReturnToSaved"]
TJump(target) == [t |-> "Jump", target |-> target]
TJumpIf(true_label, false_label, cond) ==
    [t |-> "JumpIf", true_label |-> true_label, false_label |-> false_label, cond |-> cond]
TJumpTable(arms, default, cond) ==
    [t |-> "JumpTable", arms |-> arms, default |-> default, cond |-> cond]

\* the register read by a terminator
TermRegs(term) == IF term.t \in {"JumpIf", "JumpTable"} THEN {term.cond} ELSE {}

-----------------------------------------------------------------------------
(* Literals.  An i32 literal is an integer; the programs checked keep them  *)
(* far from the i32 limits.  An i64 literal is the pair of its 32-bit       *)
(* halves, each read as an i32: I64(hi, lo) is the value whose bits 63..32  *)
(* are hi and whose bits 31..0 are lo.                                      *)

I64(hi, lo) == [hi |-> hi, lo |-> lo]

\* `val as i32` of an i64: the low 32 bits
AsI32(val) == val.lo

\* `(val >> 32) as i32` of an i64: the high 32 bits
HighI32(val) == val.hi

\* RegAlloc::get_const: the pool grows, the register is Const(val)
ra_get_const(ra, val) ==
    [ra |-> [ra EXCEPT !.const_pool = @ \cup {val}], reg |-> Const(val)]

\* get_double_const that records the low half only
ra_get_double_const_low(ra, val) ==
    [ra |-> [ra EXCEPT !.const_pool = @ \cup {AsI32(val)}],
     reg |-> <<Const(AsI32(val)), Const(HighI32(val))>>]

\* RegAlloc::get_double_const: both halves enter the pool
ra_get_double_const(ra, val) ==
    [ra |-> [ra EXCEPT !.const_pool = @ \cup {AsI32(val), HighI32(val)}],
     reg |-> <<Const(AsI32(val)), Const(HighI32(val))>>]

\* RegAlloc::get_temp
ra_get_temp(ra) ==
    [ra |-> [ra EXCEPT !.temp = @ + 1], reg |-> Temp(ra.temp)]

-----------------------------------------------------------------------------
(* LirFuncBuilder (lir_emitter.rs 10-53)                                    *)

\* LirFuncBuilder::new
LirFuncBuilder(ssa_func) ==
    [used_ids |-> SeqToSet(FuncBlockIds(ssa_func)), body |-> <<>>]

\* the assertion of LirFuncBuilder::push
PushAllowed(builder, block_id) ==
    \A i \in 1..Len(builder.body) : builder.body[i].id # block_id

\* push that puts the block in front of the list
builder_push_front(builder, block_id, body, term) ==
    [builder EXCEPT !.body = <<[id |-> block_id, body |-> body, term |-> term]>> \o @]

\* LirFuncBuilder::push
builder_push(builder, block_id, body, term) ==
    [builder EXCEPT !.body = Append(@, [id |-> block_id, body |-> body, term |-> term])]

\* LirFuncBuilder::func
builder_func(builder) == (CHOOSE id \in builder.used_ids : TRUE)[1]

\* a plausible slip: the id handed out is not recorded as used
alloc_block_id_stale(builder) ==
    LET i == Min({n \in 0..Cardinality(builder.used_ids) :
                    \A id \in builder.used_ids : id[2] # n})
        block_id == BlockId(builder_func(builder), i)
    IN  [builder |-> builder, block_id |-> block_id]

\* LirFuncBuilder::alloc_block_id: the smallest block index no used id has
alloc_block_id(builder) ==
    LET i == Min({n \in 0..Cardinality(builder.used_ids) :
                    \A id \in builder.used_ids : id[2] # n})
        block_id == BlockId(builder_func(builder), i)
    IN  [builder |-> [builder EXCEPT !.used_ids = @ \cup {block_id}], block_id |-> block_id]

-----------------------------------------------------------------------------
(* Copies around calls, caller-save lists (lir_emitter.rs 1151-1212)        *)

\* emit_copy_to_params
emit_copy_to_params(block, vs, wide, ra) ==
    block \o Flatten([i \in 1..Len(vs) |->
        IF vs[i] \in wide
        THEN <<LAssign(Param(i - 1, "Lo"), ra_get_double(ra, vs[i])[1]),
               LAssign(Param(i - 1, "Hi"), ra_get_double(ra, vs[i])[2])>>
        ELSE <<LAssign(Param(i - 1, "Lo"), ra_get(ra, vs[i]))>>])

\* emit_copy_from_returns
emit_copy_from_returns(block, vs, wide, ra) ==
    block \o Flatten([i \in 1..Len(vs) |->
        IF vs[i] \in wide
        THEN <<LAssign(ra_get_double(ra, vs[i])[1], Return(i - 1, "Lo")),
               LAssign(ra_get_double(ra, vs[i])[2], Return(i - 1, "Hi"))>>
        ELSE <<LAssign(ra_get(ra, vs[i]), Return(i - 1, "Lo"))>>])

\* get_save_reg_list
get_save_reg_list(to_save, wide, ra) ==
    Flatten([i \in 1..Len(to_save) |->
        IF to_save[i] \in wide
        THEN <<ra_get_double(ra, to_save[i])[1], ra_get_double(ra, to_save[i])[2]>>
        ELSE <<ra_get(ra, to_save[i])>>])

\* emit_save
emit_save(block, to_save, wide, ra) ==
    Append(block, Lir("Push", get_save_reg_list(to_save, wide, ra), <<>>))

\* the registers are popped in the order opposite to the Push
emit_restore_reversed(block, to_restore, wide, ra) ==
    Append(block, Lir("Pop",
        [i \in 1..Len(get_save_reg_list(to_restore, wide, ra)) |->
            get_save_reg_list(to_restore, wide, ra)
                [Len(get_save_reg_list(to_restore, wide, ra)) + 1 - i]], <<>>))

\* emit_restore
emit_restore(block, to_restore, wide, ra) ==
    Append(block, Lir("Pop", get_save_reg_list(to_restore, wide, ra), <<>>))


-----------------------------------------------------------------------------
(* lower_block (lir_emitter.rs 106-1149): the emitter state                 *)
(*   st.ra        the register allocator                                    *)
(*   st.builder   the LirFuncBuilder                                        *)
(*   st.li        FullLivenessInfo::analyze(ssa_func)                       *)
(*   st.block_id  the id of the LIR block being filled (`mut block_id`)     *)
(*   st.block     its instructions so far                                   *)
(*   st.panic     an assertion or unwrap failed: the compile aborts         *)
(*   st.calls     history: one record per lowered call site                 *)
(*   st.allocs    history: the ids alloc_block_id returned, in order, with  *)
(*                the SSA block whose lowering asked for them               *)

\* map_ra_i32
map_ra_i32(ra, r) ==
    IF IsVar(r) THEN [ra |-> ra, reg |-> ra_get(ra, r[2])]
    ELSE ra_get_const(ra, r[2])

\* map_ra_i64
map_ra_i64(ra, r) ==
    IF IsVar(r) THEN [ra |-> ra, reg |-> ra_get_double(ra, r[2])]
    ELSE ra_get_double_const(ra, r[2])

\* SsaInstr::I32Set / I64Set (lir_emitter.rs 379-387)
lower_set(st, wide, instr) ==
    IF instr.op = "I32Set"
    THEN [st EXCEPT !.block = Append(@, Lir("Set", <<ra_get(st.ra, instr.dst)>>, <<instr.val>>))]
    ELSE [st EXCEPT !.block = @ \o
            <<Lir("Set", <<ra_get_double(st.ra, instr.dst)[1]>>, <<AsI32(instr.val)>>),
              Lir("Set", <<ra_get_double(st.ra, instr.dst)[2]>>, <<HighI32(instr.val)>>)>>]

\* SsaInstr::Add through do_binop (lir_emitter.rs 122-140, 407-424)
lower_add(st, wide, instr) ==
    IF instr.dst \notin wide
    THEN LET dst == ra_get(st.ra, instr.dst)
             l   == map_ra_i32(st.ra, instr.lhs)
             r   == map_ra_i32(l.ra, instr.rhs)
             code == IF dst = l.reg THEN <<Lir("Add", <<dst, r.reg>>, <<>>)>>
                     ELSE IF dst = r.reg THEN <<Lir("Add", <<dst, l.reg>>, <<>>)>>
                     ELSE <<LAssign(dst, l.reg), Lir("Add", <<dst, r.reg>>, <<>>)>>
         IN  [st EXCEPT !.ra = r.ra, !.block = @ \o code]
    ELSE LET dst == ra_get_double(st.ra, instr.dst)
             l   == map_ra_i64(st.ra, instr.lhs)
             r   == map_ra_i64(l.ra, instr.rhs)
         IN  [st EXCEPT !.ra = r.ra,
                        !.block = Append(@, Lir("Add64", dst \o l.reg \o r.reg, <<>>))]

\* do_store for Store32 (lir_emitter.rs 248-277, 667); the StaticValue attached
\* to the address operand is kept in imm
lower_store32(st, static_values, instr) ==
    LET src  == ra_get(st.ra, instr.src)
        addr == map_ra_i32(st.ra, instr.addr)
    IN  IF addr.reg.k = "Const"
        THEN LET a == addr.reg.b + instr.offset
                 c == ra_get_const(addr.ra, a)
             IN  [st EXCEPT !.ra = c.ra,
                            !.block = Append(@, Lir("Store32", <<src, c.reg>>, Some(a)))]
        ELSE LET temp == Temp(0)
                 base_info == IF IsVar(instr.addr)
                              THEN (IF instr.addr[2] \in DOMAIN static_values
                                    THEN Some(static_values[instr.addr[2]]) ELSE None)
                              ELSE Some(instr.addr[2])
                 info == IF base_info = None THEN None
                         ELSE Some(base_info[1] + instr.offset)
                 c == ra_get_const(addr.ra, instr.offset)
             IN  [st EXCEPT !.ra = c.ra,
                            !.block = @ \o <<LAssign(temp, addr.reg),
                                             Lir("Add", <<temp, c.reg>>, <<>>),
                                             Lir("Store32", <<src, temp>>, info)>>]

\* do_load_trunc for a 32-bit load into an I32 variable (lir_emitter.rs
\* 279-317); the StaticValue attached to the address operand is kept in imm
lower_load32(st, static_values, instr) ==
    LET dst_lo == ra_get(st.ra, instr.dst)
        raw == map_ra_i32(st.ra, instr.addr)
        value == IF IsVar(instr.addr)
                 THEN (IF instr.addr[2] \in DOMAIN static_values
                       THEN Some(static_values[instr.addr[2]]) ELSE None)
                 ELSE Some(instr.addr[2])
    IN  IF raw.reg.k = "Const"
        THEN LET a == raw.reg.b + instr.offset
                 c == ra_get_const(raw.ra, a)
             IN  [st EXCEPT !.ra = c.ra,
                            !.block = Append(@, Lir("Load32", <<dst_lo, c.reg>>, Some(a)))]
        ELSE IF instr.offset = 0
        THEN [st EXCEPT !.ra = raw.ra,
                        !.block = Append(@, Lir("Load32", <<dst_lo, raw.reg>>, value))]
        ELSE LET temp == Temp(0)
                 info == IF value = None THEN None ELSE Some(value[1] + instr.offset)
                 c == ra_get_const(raw.ra, instr.offset)
             IN  [st EXCEPT !.ra = c.ra,
                            !.block = @ \o <<LAssign(temp, raw.reg),
                                             Lir("Add", <<temp, c.reg>>, <<>>),
                                             Lir("Load32", <<dst_lo, temp>>, info)>>]

\* RegAlloc::get_temp_double (reg_alloc.rs 63-67, 403-407)
ra_get_temp_double(ra) ==
    [ra |-> [ra EXCEPT !.temp = @ + 1], reg |-> <<Temp(ra.temp), TempHi(ra.temp)>>]

\* a plausible slip: the subtraction goes through the destination also when
\* the destination is the register of rhs
lower_sub_no_temp(st, wide, instr) ==
    LET temp == ra_get_temp(st.ra)
        dst == ra_get(temp.ra, instr.dst)
        l   == map_ra_i32(temp.ra, instr.lhs)
        r   == map_ra_i32(l.ra, instr.rhs)
        code == IF dst = l.reg THEN <<Lir("Sub", <<dst, r.reg>>, <<>>)>>
                ELSE <<LAssign(dst, l.reg), Lir("Sub", <<dst, r.reg>>, <<>>)>>
    IN  [st EXCEPT !.ra = r.ra, !.block = @ \o code]

\* SsaInstr::Sub through do_binop (lir_emitter.rs 425-453)
lower_sub(st, wide, instr) ==
    LET temp == ra_get_temp(st.ra)
    IN  IF instr.dst \notin wide
        THEN LET dst == ra_get(temp.ra, instr.dst)
                 l   == map_ra_i32(temp.ra, instr.lhs)
                 r   == map_ra_i32(l.ra, instr.rhs)
                 code == IF dst = l.reg THEN <<Lir("Sub", <<dst, r.reg>>, <<>>)>>
                         ELSE IF dst = r.reg
                         THEN <<LAssign(temp.reg, l.reg),
                                Lir("Sub", <<temp.reg, r.reg>>, <<>>),
                                LAssign(dst, temp.reg)>>
                         ELSE <<LAssign(dst, l.reg), Lir("Sub", <<dst, r.reg>>, <<>>)>>
             IN  [st EXCEPT !.ra = r.ra, !.block = @ \o code]
        ELSE LET dst == ra_get_double(temp.ra, instr.dst)
                 l   == map_ra_i64(temp.ra, instr.lhs)
                 r   == map_ra_i64(l.ra, instr.rhs)
             IN  [st EXCEPT !.ra = r.ra,
                            !.block = Append(@, Lir("Sub64", dst \o l.reg \o r.reg, <<>>))]

\* a plausible slip: the product is built in the destination also when the
\* destination is the register pair of an operand
i64_mul_no_scratch(t, t2, dst, lhs, rhs) ==
    [panic |-> FALSE,
     code |-> <<Lir("MulTo64", <<dst[1], dst[2], lhs[1], rhs[1]>>, <<>>),
                LAssign(t, lhs[1]),
                Lir("Mul", <<t, rhs[2]>>, <<>>),
                Lir("Add", <<dst[2], t>>, <<>>),
                LAssign(t, lhs[2]),
                Lir("Mul", <<t, rhs[1]>>, <<>>),
                Lir("Add", <<dst[2], t>>, <<>>)>>]

\* the closure i64_mul of SsaInstr::Mul (lir_emitter.rs 469-493): the emitted
\* instructions and whether an assert_ne failed
i64_mul(t, t2, dst, lhs, rhs) ==
    LET new_dst == IF dst = lhs \/ dst = rhs THEN t2 ELSE dst
    IN  [panic |-> new_dst = lhs \/ new_dst = rhs,
         code |-> <<Lir("MulTo64", <<new_dst[1], new_dst[2], lhs[1], rhs[1]>>, <<>>),
                    LAssign(t, lhs[1]),
                    Lir("Mul", <<t, rhs[2]>>, <<>>),
                    Lir("Add", <<new_dst[2], t>>, <<>>),
                    LAssign(t, lhs[2]),
                    Lir("Mul", <<t, rhs[1]>>, <<>>),
                    Lir("Add", <<new_dst[2], t>>, <<>>)>>
                  \o (IF dst # new_dst
                      THEN <<LAssign(dst[1], new_dst[1]), LAssign(dst[2], new_dst[2])>>
                      ELSE <<>>)]

\* SsaInstr::Mul through do_binop (lir_emitter.rs 454-496)
lower_mul(st, wide, instr) ==
    LET t  == ra_get_temp(st.ra)
        t2 == ra_get_temp_double(t.ra)
    IN  IF instr.dst \notin wide
        THEN LET dst == ra_get(t2.ra, instr.dst)
                 l   == map_ra_i32(t2.ra, instr.lhs)
                 r   == map_ra_i32(l.ra, instr.rhs)
                 code == IF dst = l.reg THEN <<Lir("Mul", <<dst, r.reg>>, <<>>)>>
                         ELSE IF dst = r.reg THEN <<Lir("Mul", <<dst, l.reg>>, <<>>)>>
                         ELSE <<LAssign(dst, l.reg), Lir("Mul", <<dst, r.reg>>, <<>>)>>
             IN  [st EXCEPT !.ra = r.ra, !.block = @ \o code]
        ELSE LET dst == ra_get_double(t2.ra, instr.dst)
                 l   == map_ra_i64(t2.ra, instr.lhs)
                 r   == map_ra_i64(l.ra, instr.rhs)
                 m   == i64_mul(t.reg, t2.reg, dst, l.reg, r.reg)
             IN  [st EXCEPT !.ra = r.ra, !.block = @ \o m.code,
                            !.panic = @ \/ m.panic]

\* SsaInstr::Popcnt (lir_emitter.rs 565-584)
lower_popcnt(st, wide, instr) ==
    IF instr.dst \notin wide
    THEN LET dst == ra_get(st.ra, instr.dst)
             src == ra_get(st.ra, instr.src[2])
         IN  [st EXCEPT !.block = @ \o <<Lir("Set", <<dst>>, <<0>>),
                                         Lir("PopcntAdd", <<dst, src>>, <<>>)>>]
    ELSE LET dst == ra_get_double(st.ra, instr.dst)
             src == ra_get_double(st.ra, instr.src[2])
         IN  [st EXCEPT !.block = @ \o <<Lir("Set", <<dst[1]>>, <<0>>),
                                         Lir("Set", <<dst[2]>>, <<0>>),
                                         Lir("PopcntAdd", <<dst[1], src[1]>>, <<>>),
                                         Lir("PopcntAdd", <<dst[1], src[2]>>, <<>>)>>]

\* SsaInstr::ParamGet (lir_emitter.rs 718-733)
lower_param_get(st, wide, instr) ==
    IF instr.dst \in wide
    THEN [st EXCEPT !.block = @ \o
            <<LAssign(ra_get_double(st.ra, instr.dst)[1], Param(instr.src, "Lo")),
              LAssign(ra_get_double(st.ra, instr.dst)[2], Param(instr.src, "Hi"))>>]
    ELSE [st EXCEPT !.block = Append(@, LAssign(ra_get(st.ra, instr.dst), Param(instr.src, "Lo")))]

\* SsaInstr::PrintInt (lir_emitter.rs 1003-1006)
lower_print_int(st, instr) ==
    [st EXCEPT !.block = Append(@, Lir("PrintInt", <<ra_get(st.ra, instr.src)>>, <<>>))]

\* the sets that can be handed to `to_save.into_iter().collect()` at a call
\* site (lir_emitter.rs 819-823, 858-862): the answer of the oracle, asked
\* about `block_id`, the block being filled, without the return variables
to_save_set(st, func_vars, instr, instr_idx) ==
    {live \ SeqToSet(instr.returns) :
        live \in live_out_answers(st.li, func_vars, st.block_id, instr_idx)}


\* the emitter closes the block being filled and goes on in `next`
close_block(st, builder, term, next) ==
    IF ~PushAllowed(builder, st.block_id)
    THEN [st EXCEPT !.panic = TRUE]
    ELSE [st EXCEPT !.builder = builder_push(builder, st.block_id, st.block, term),
                    !.block_id = next,
                    !.block = <<>>]

\* needs_save of a direct call (lir_emitter.rs 825)
call_needs_save_never(prog, function_index, func) == FALSE

call_needs_save(prog, function_index, func) == may_call(prog, function_index, func)

\* the terminator closing the block of a multi-tick direct call (838-841)
call_entry_jump_nocheck(function_index) ==
    TJump(LirJumpTarget(BlockId(function_index, 0), FALSE))

call_entry_jump(function_index) ==
    TJump(LirJumpTarget(BlockId(function_index, 0), TRUE))

\* SsaInstr::Call (lir_emitter.rs 816-854); to_save is the Vec collected from the
\* live-out set
lower_call(prog, suspends, st, ssa_block_id, wide, instr, instr_idx, to_save) ==
    LET fi == instr.function_index
        b1 == emit_copy_to_params(st.block, instr.params, wide, st.ra)
        needs_save == call_needs_save(prog, fi, st.block_id[1])
        b2 == IF needs_save THEN emit_save(b1, to_save, wide, st.ra) ELSE b1
        single == is_single_tick(prog, suspends, fi)
        al == alloc_block_id(st.builder)
        next_block_id == al.block_id
        st_call == [st EXCEPT !.block = Append(b2, Lir("Call", <<>>, <<fi>>))]
        st_jump == close_block(
                      [st EXCEPT !.block = Append(b2, Lir("PushReturnAddr", <<>>, <<next_block_id>>)),
                                 !.allocs = Append(@, [id |-> next_block_id, owner |-> ssa_block_id])],
                      al.builder, call_entry_jump(fi), next_block_id)
        st3 == IF single THEN st_call ELSE st_jump
        b4 == IF needs_save THEN emit_restore(st3.block, to_save, wide, st.ra) ELSE st3.block
        b5 == emit_copy_from_returns(b4, instr.returns, wide, st.ra)
        rec == [kind |-> "Call", ssa_block |-> ssa_block_id, instr_idx |-> instr_idx,
                at |-> st.block_id, callees |-> {fi}, returns |-> SeqToSet(instr.returns),
                saved |-> to_save, pushed |-> needs_save, single |-> single,
                cont |-> IF single THEN None ELSE Some(next_block_id),
                trampolines |-> {}]
    IN  IF st3.panic
        THEN [st EXCEPT !.panic = TRUE]
        ELSE [st3 EXCEPT !.block = b5, !.calls = Append(@, rec)]

\* needs_save of an indirect call (lir_emitter.rs 867-873)
indirect_needs_save(prog, compat_funcs, parent) ==
    \E func \in FlattenOpt(compat_funcs) :
        func = parent \/ may_call(prog, func, parent)

\* a trampoline that pops the return address before the call
trampoline_body_pop_first(func_idx) ==
    <<Lir("PopReturnAddr", <<>>, <<>>), Lir("Call", <<>>, <<func_idx>>)>>

\* the trampoline of a single-tick arm (lir_emitter.rs 915-920)
trampoline_body(func_idx) ==
    <<Lir("Call", <<>>, <<func_idx>>), Lir("PopReturnAddr", <<>>, <<>>)>>

trampoline_term(continued_block_idx) ==
    TJump(LirJumpTarget(continued_block_idx, FALSE))

\* the arms of the mixed case (lir_emitter.rs 911-927): slot by slot, a
\* single-tick callee gets a trampoline block, allocated and pushed at once
RECURSIVE mixed_arms(_, _, _, _, _, _)
mixed_arms(prog, suspends, acc, compat_funcs, i, continued_block_idx) ==
    IF i > Len(compat_funcs) THEN acc
    ELSE IF compat_funcs[i] = None
    THEN mixed_arms(prog, suspends, [acc EXCEPT !.arms = Append(@, None)],
                    compat_funcs, i + 1, continued_block_idx)
    ELSE IF is_single_tick(prog, suspends, compat_funcs[i][1])
    THEN LET al == alloc_block_id(acc.builder)
             b  == builder_push(al.builder, al.block_id,
                                trampoline_body(compat_funcs[i][1]),
                                trampoline_term(continued_block_idx))
         IN  mixed_arms(prog, suspends,
                        [builder |-> b,
                         arms |-> Append(acc.arms, Some(al.block_id)),
                         ids |-> Append(acc.ids, al.block_id),
                         ok |-> acc.ok /\ PushAllowed(al.builder, al.block_id)],
                        compat_funcs, i + 1, continued_block_idx)
    ELSE mixed_arms(prog, suspends,
                    [acc EXCEPT !.arms = Append(@, Some(BlockId(compat_funcs[i][1], 0)))],
                    compat_funcs, i + 1, continued_block_idx)

\* SsaInstr::CallIndirect (lir_emitter.rs 855-942)
lower_call_indirect(prog, suspends, st, ssa_block_id, ssa_func, instr, instr_idx, to_save) ==
    LET wide == ssa_func.wide
        parent == ssa_block_id[1]
        b1 == emit_copy_to_params(st.block, instr.params, wide, st.ra)
        table == prog.tables[instr.table_index + 1]
        compat_funcs == get_compatible_functions(prog, table,
                            VarTys(ssa_func, instr.params), VarTys(ssa_func, instr.returns))
        needs_save == indirect_needs_save(prog, compat_funcs, parent)
        b2 == IF needs_save THEN emit_save(b1, to_save, wide, st.ra) ELSE b1
        table_entry == ra_get(st.ra, instr.table_entry)
        is_only_single_tick ==
            \A f \in FlattenOpt(compat_funcs) : is_single_tick(prog, suspends, f)
        is_only_multi_tick ==
            \A f \in FlattenOpt(compat_funcs) : ~is_single_tick(prog, suspends, f)
        al == alloc_block_id(st.builder)
        K == al.block_id
        closed == Append(b2, Lir("PushReturnAddr", <<>>, <<K>>))
        st_single == [st EXCEPT !.block =
                         Append(b2, Lir("CallIndirect", <<table_entry>>, compat_funcs))]
        entry_arms == [i \in 1..Len(compat_funcs) |->
                          IF compat_funcs[i] = None THEN None
                          ELSE Some(BlockId(compat_funcs[i][1], 0))]
        st_multi == close_block(
                       [st EXCEPT !.block = closed,
                                  !.allocs = Append(@, [id |-> K, owner |-> ssa_block_id])],
                       al.builder, TJumpTable(entry_arms, None, table_entry), K)
        mx == mixed_arms(prog, suspends,
                         [builder |-> al.builder, arms |-> <<>>, ids |-> <<>>, ok |-> TRUE],
                         compat_funcs, 1, K)
        st_mixed0 == close_block(
                       [st EXCEPT !.block = closed,
                                  !.allocs = @ \o <<[id |-> K, owner |-> ssa_block_id]>>
                                               \o [i \in 1..Len(mx.ids) |->
                                                     [id |-> mx.ids[i], owner |-> ssa_block_id]]],
                       mx.builder, TJumpTable(mx.arms, None, table_entry), K)
        st_mixed == IF mx.ok THEN st_mixed0 ELSE [st EXCEPT !.panic = TRUE]
        st3 == IF is_only_single_tick THEN st_single
               ELSE IF is_only_multi_tick THEN st_multi
               ELSE st_mixed
        b4 == IF needs_save THEN emit_restore(st3.block, to_save, wide, st.ra) ELSE st3.block
        b5 == emit_copy_from_returns(b4, instr.returns, wide, st.ra)
        rec == [kind |-> IF is_only_single_tick THEN "IndirectSingle"
                         ELSE IF is_only_multi_tick THEN "IndirectMulti" ELSE "IndirectMixed",
                ssa_block |-> ssa_block_id, instr_idx |-> instr_idx,
                at |-> st.block_id, callees |-> FlattenOpt(compat_funcs),
                returns |-> SeqToSet(instr.returns),
                saved |-> to_save, pushed |-> needs_save, single |-> is_only_single_tick,
                cont |-> IF is_only_single_tick THEN None ELSE Some(K),
                trampolines |-> IF is_only_single_tick \/ is_only_multi_tick THEN {}
                                ELSE SeqToSet(mx.ids)]
    IN  IF st3.panic
        THEN [st EXCEPT !.panic = TRUE]
        ELSE [st3 EXCEPT !.block = b5, !.calls = Append(@, rec)]


\* one SSA instruction of lower_block's loop
lower_instr(prog, suspends, static_values, st, ssa_block_id, ssa_func, instr, instr_idx, to_save) ==
    CASE instr.op \in {"I32Set", "I64Set"} -> lower_set(st, ssa_func.wide, instr)
      [] instr.op = "Add" -> lower_add(st, ssa_func.wide, instr)
      [] instr.op = "Store32" -> lower_store32(st, static_values, instr)
      [] instr.op = "ParamGet" -> lower_param_get(st, ssa_func.wide, instr)
      [] instr.op = "PrintInt" -> lower_print_int(st, instr)
      [] instr.op = "Call" ->
            lower_call(prog, suspends, st, ssa_block_id, ssa_func.wide, instr, instr_idx, to_save)
      [] instr.op = "CallIndirect" ->
            lower_call_indirect(prog, suspends, st, ssa_block_id, ssa_func, instr, instr_idx, to_save)

-----------------------------------------------------------------------------
(* Terminators (lir_emitter.rs 1021-1148)                                   *)

\* cmd_check of the target of Jump and of both targets of BranchIf (1037, 1068-1071)
is_back_edge_never(ssa_func, label, ssa_block_id) == FALSE

is_back_edge(ssa_func, label, ssa_block_id) == dominates(ssa_func, label, ssa_block_id)

\* SsaTerminator::Jump
lower_jump(st, ssa_func, ssa_block_id, term) ==
    LET out_params == GetBlock(ssa_func, term.target.label).params
        block == emit_copy(st.block, term.target.params, out_params, ssa_func.wide, st.ra, <<>>)
    IN  close_block([st EXCEPT !.block = block], st.builder,
                    TJump(LirJumpTarget(term.target.label,
                                        is_back_edge(ssa_func, term.target.label, ssa_block_id))),
                    st.block_id)

\* SsaTerminator::BranchIf
lower_branch_if(st, ssa_func, ssa_block_id, term) ==
    LET cond2 == ra_get(st.ra, term.cond)
        t == ra_get_temp(st.ra)
        cond == t.reg
        true_out_params == GetBlock(ssa_func, term.true_target.label).params
        false_out_params == GetBlock(ssa_func, term.false_target.label).params
        true_conds == <<CondEqZero(CondTaken), CondNeqZero(cond)>>
        false_conds == <<CondEqZero(CondTaken), CondEqZero(cond)>>
        b1 == st.block \o <<LAssign(cond, cond2), Lir("Set", <<CondTaken>>, <<0>>)>>
        b2 == emit_copy(b1, term.true_target.params, true_out_params, ssa_func.wide, t.ra, true_conds)
        b3 == emit_copy(b2, term.false_target.params, false_out_params, ssa_func.wide, t.ra, false_conds)
        true_label == LirJumpTarget(term.true_target.label,
                          is_back_edge(ssa_func, term.true_target.label, ssa_block_id))
        false_label == LirJumpTarget(term.false_target.label,
                          is_back_edge(ssa_func, term.false_target.label, ssa_block_id))
        clash == \E p \in SeqToSet(true_out_params) \cup SeqToSet(false_out_params) :
                    cond = ra_get(t.ra, p)
    IN  IF clash THEN [st EXCEPT !.panic = TRUE]
        ELSE close_block([st EXCEPT !.ra = t.ra, !.block = b3], st.builder,
                         TJumpIf(true_label, false_label, cond), st.block_id)

\* a plausible slip: the guard of arm i tests the 1-based position
RECURSIVE arm_copies_one_based(_, _, _, _, _, _)
arm_copies_one_based(block, ssa_func, ra, arms, i, cond) ==
    IF i > Len(arms) THEN block
    ELSE arm_copies_one_based(
            emit_copy(block, arms[i].params, GetBlock(ssa_func, arms[i].label).params,
                      ssa_func.wide, ra,
                      <<CondEqZero(CondTaken), CondEqConst(cond, i)>>),
            ssa_func, ra, arms, i + 1, cond)

\* the guarded copies of the arms, in order (lir_emitter.rs 1113-1117)
RECURSIVE arm_copies(_, _, _, _, _, _)
arm_copies(block, ssa_func, ra, arms, i, cond) ==
    IF i > Len(arms) THEN block
    ELSE arm_copies(
            emit_copy(block, arms[i].params, GetBlock(ssa_func, arms[i].label).params,
                      ssa_func.wide, ra,
                      <<CondEqZero(CondTaken), CondEqConst(cond, i - 1)>>),
            ssa_func, ra, arms, i + 1, cond)

\* the condition is never staged
needs_new_cond_never(ra, cond, out_params) == FALSE

\* the condition register is the register of a parameter of a target block
\* (lir_emitter.rs 1091-1097)
needs_new_cond(ra, cond, out_params) ==
    \E p \in out_params : cond = ra_get(ra, p)

\* SsaTerminator::BranchTable
lower_branch_table(st, ssa_func, ssa_block_id, term) ==
    IF term.arms = <<>>
    THEN LET out_params == GetBlock(ssa_func, term.default.label).params
             block == emit_copy(st.block, term.default.params, out_params,
                                ssa_func.wide, st.ra, <<>>)
         IN  close_block([st EXCEPT !.block = block], st.builder,
                         TJump(LirJumpTarget(term.default.label, FALSE)), st.block_id)
    ELSE LET cond0 == ra_get(st.ra, term.cond)
             default_out_params == GetBlock(ssa_func, term.default.label).params
             other_out_params ==
                 UNION {SeqToSet(GetBlock(ssa_func, term.arms[i].label).params) :
                          i \in 1..Len(term.arms)}
             new_cond == needs_new_cond(st.ra, cond0,
                                        other_out_params \cup SeqToSet(default_out_params))
             t == ra_get_temp(st.ra)
             ra == IF new_cond THEN t.ra ELSE st.ra
             cond == IF new_cond THEN t.reg ELSE cond0
             b0 == IF new_cond THEN Append(st.block, LAssign(t.reg, cond0)) ELSE st.block
             b1 == Append(b0, Lir("Set", <<CondTaken>>, <<0>>))
             default_conds == <<CondEqZero(CondTaken),
                                CondNotMatches(cond, 0, Len(term.arms) - 1)>>
             b2 == emit_copy(b1, term.default.params, default_out_params,
                             ssa_func.wide, ra, default_conds)
             b3 == arm_copies(b2, ssa_func, ra, term.arms, 1, cond)
             arm_labels == [i \in 1..Len(term.arms) |-> Some(term.arms[i].label)]
         IN  close_block([st EXCEPT !.ra = ra, !.block = b3], st.builder,
                         TJumpTable(arm_labels, Some(term.default.label), cond), st.block_id)

\* a Return terminator for every function
return_term_plain(prog, suspends, func_id) == TReturn

\* the terminator of a lowered Return (lir_emitter.rs 1142-1146)
return_term(prog, suspends, func_id) ==
    IF is_single_tick(prog, suspends, func_id) THEN TReturn ELSE TReturnToSaved

\* SsaTerminator::Return
lower_return(prog, suspends, st, ssa_func, ssa_block_id, term) ==
    LET moves == Flatten([i \in 1..Len(term.vars) |->
                    IF term.vars[i] \in ssa_func.wide
                    THEN <<LAssign(Return(i - 1, "Lo"), ra_get_double(st.ra, term.vars[i])[1]),
                           LAssign(Return(i - 1, "Hi"), ra_get_double(st.ra, term.vars[i])[2])>>
                    ELSE <<LAssign(Return(i - 1, "Lo"), ra_get(st.ra, term.vars[i]))>>])
    IN  close_block([st EXCEPT !.block = @ \o moves], st.builder,
                    return_term(prog, suspends, ssa_block_id[1]), st.block_id)

\* the terminator of lower_block
lower_term(prog, suspends, st, ssa_func, ssa_block_id, term) ==
    CASE term.t = "Unreachable" -> close_block(st, st.builder, TReturn, st.block_id)
      [] term.t = "Jump" -> lower_jump(st, ssa_func, ssa_block_id, term)
      [] term.t = "BranchIf" -> lower_branch_if(st, ssa_func, ssa_block_id, term)
      [] term.t = "BranchTable" -> lower_branch_table(st, ssa_func, ssa_block_id, term)
      [] term.t = "Return" -> lower_return(prog, suspends, st, ssa_func, ssa_block_id, term)

-----------------------------------------------------------------------------
(* lower (lir_emitter.rs 1271-1347)                                         *)

\* gen_prologue
gen_prologue(ssa_func) ==
    <<Lir("PushLocalFrame", <<>>, ssa_func.locals)>> \o
    Flatten([i \in 1..Len(ssa_func.params) |->
        IF ssa_func.params[i] = "I64"
        THEN <<Lir("LocalSet", <<Param(i - 1, "Lo")>>, <<i - 1, "Lo">>),
               Lir("LocalSet", <<Param(i - 1, "Hi")>>, <<i - 1, "Hi">>)>>
        ELSE <<Lir("LocalSet", <<Param(i - 1, "Lo")>>, <<i - 1, "Lo">>)>>])

\* position of the first block of `body` whose block index is n; 0 if none
FindBlockIndex(body, n) ==
    IF \E i \in 1..Len(body) : body[i].id[2] = n
    THEN Min({i \in 1..Len(body) : body[i].id[2] = n})
    ELSE 0

\* the end of lower: prologue spliced into the block with index 0, PopLocalFrame
\* appended to the block with index 1 if there is one
finish_blocks(ssa_func, body) ==
    LET s == FindBlockIndex(body, 0)
        b1 == [body EXCEPT ![s].body = gen_prologue(ssa_func) \o @]
        e == FindBlockIndex(b1, 1)
    IN  IF e = 0 THEN b1
        ELSE [b1 EXCEPT ![e].body = Append(@, Lir("PopLocalFrame", <<>>, ssa_func.locals))]

-----------------------------------------------------------------------------
(* Live ranges (spec section 4.1; ssa/liveness.rs is not part of the        *)
(* sources): per block, whether the variable is live-in and the set of      *)
(* program points of the body at which it is live                           *)

\* FullLivenessInfo::live_range
live_range(func, li, v) ==
    [b \in DOMAIN li |->
        [live_in |-> v \in li[b].live_in,
         body |-> {i \in DOMAIN li[b].before : v \in li[b].before[i]}]]

\* LiveRange::is_empty
range_is_empty(lr) == \A b \in DOMAIN lr : ~lr[b].live_in /\ lr[b].body = {}

\* LiveRange::overlap: the points at which both are live
range_overlap(lr1, lr2) ==
    UNION {{<<b, i>> : i \in lr1[b].body \cap lr2[b].body} : b \in DOMAIN lr1}

\* LiveRange::merge
range_merge(lr1, lr2) ==
    [b \in DOMAIN lr1 |->
        [live_in |-> lr1[b].live_in \/ lr2[b].live_in,
         body |-> lr1[b].body \cup lr2[b].body]]

-----------------------------------------------------------------------------
(* InterfGraph (reg_alloc.rs 88-175): the set of directed edges             *)

\* InterfGraph::add_edge
add_edge(a, b) == {<<a, b>>, <<b, a>>}

\* the edges one instruction contributes in InterfGraph::new
instr_edges(func, instr) ==
    LET l == OperandVars(instr.lhs)
        r == OperandVars(instr.rhs)
    IN  CASE instr.op = "Add" /\ instr.dst \in func.wide ->
                UNION {add_edge(instr.dst, x) : x \in l \cup r}
                \cup UNION {add_edge(x, y) : x \in l, y \in r}
          [] instr.op = "Ctz" /\ instr.dst \in func.wide ->
                UNION {add_edge(instr.dst, x) : x \in OperandVars(instr.src)}
          [] instr.op \in {"GeU", "GtU", "LeU", "LtU"} ->
                UNION {add_edge(instr.dst, x) : x \in l \cup r}
          [] instr.op \in {"GeS", "GtS", "LeS", "LtS"} /\ instr.dst \in func.wide ->
                UNION {add_edge(instr.dst, x) : x \in l \cup r}
          [] instr.op = "RemU" /\ instr.dst \notin func.wide ->
                UNION {add_edge(instr.dst, x) : x \in l \cup r}
          [] OTHER -> {}

\* InterfGraph::new
InterfGraph(func) == UNION {instr_edges(func, instr) : instr \in FuncInstrs(func)}

\* only the largest member of either register is looked up in the graph
interferes_last_members(graph, lhs, rhs) ==
    <<CHOOSE a \in lhs.members : \A x \in lhs.members : x <= a,
      CHOOSE b \in rhs.members : \A y \in rhs.members : y <= b>> \in graph

\* InterfGraph::interferes
interferes(graph, lhs, rhs) ==
    \E a \in lhs.members, b \in rhs.members : <<a, b>> \in graph

-----------------------------------------------------------------------------
(* RegisterSet (reg_alloc.rs 177-249)                                       *)

RECURSIVE SetToSeq(_)
SetToSeq(S) == IF S = {} THEN <<>> ELSE <<Min(S)>> \o SetToSeq(S \ {Min(S)})

\* RegisterSet::new: one MergedRegister per variable of the function
RegisterSet(func) ==
    LET li == FullLivenessInfo(func)
        all_vars == SetToSeq(FuncVars(func))
    IN  [i \in 1..Len(all_vars) |->
            [members |-> {all_vars[i]}, live_range |-> live_range(func, li, all_vars[i])]]

\* RegisterSet::get_idx
get_idx(sets, v) == CHOOSE i \in 1..Len(sets) : v \in sets[i].members

\* Vec::remove
Remove(s, i) == [j \in 1..(Len(s) - 1) |-> IF j < i THEN s[j] ELSE s[j + 1]]

\* a plausible slip: the register of var2 stays in the list
merge_keep_second(sets, var1, var2) ==
    LET r1 == get_idx(sets, var1)
        merged1 == sets[r1]
        s1 == Remove(sets, r1)
        merged2 == s1[get_idx(s1, var2)]
    IN  Append(s1, [members |-> merged1.members \cup merged2.members,
                    live_range |-> range_merge(merged1.live_range, merged2.live_range)])

\* RegisterSet::merge
merge(sets, var1, var2) ==
    LET r1 == get_idx(sets, var1)
        merged1 == sets[r1]
        s1 == Remove(sets, r1)
        r2 == get_idx(s1, var2)
        merged2 == s1[r2]
        s2 == Remove(s1, r2)
    IN  Append(s2, [members |-> merged1.members \cup merged2.members,
                    live_range |-> range_merge(merged1.live_range, merged2.live_range)])

\* RegisterSet::to_map: every member maps to the first (smallest) member of its set
to_map(sets) ==
    [v \in UNION {sets[i].members : i \in 1..Len(sets)} |->
        Min(sets[get_idx(sets, v)].members)]

-----------------------------------------------------------------------------
(* Coalescing (reg_alloc.rs 254-373)                                        *)

\* SsaInstr::coalescable_vars (spec section 4.4): the (dst, src) pairs of a copy
coalescable_vars(instr) ==
    IF instr.op \in {"Assign", "Wrap"} /\ IsVar(instr.src)
    THEN <<[dst |-> instr.dst, src |-> instr.src[2]]>>
    ELSE <<>>

\* SsaFunction::coalescable_term_vars (spec section 4.4): for every jump target
\* of the terminator, the pairs (target parameter, jump argument)
coalescable_term_vars(func, block_id) ==
    LET targets == TermTargets(GetBlock(func, block_id).term)
    IN  Flatten([t \in 1..Len(targets) |->
            [i \in 1..Len(targets[t].params) |->
                [dst |-> GetBlock(func, targets[t].label).params[i],
                 src |-> targets[t].params[i]]]])

\* the coalescing attempts of FullRegAlloc::analyze, in order: per block, the
\* pairs of its instructions, then the pairs of its terminator
Attempts(func) ==
    Flatten([b \in 1..Len(func.code) |->
        Flatten([i \in 1..Len(func.code[b].blk.body) |->
            LET cv == coalescable_vars(func.code[b].blk.body[i])
            IN  [k \in 1..Len(cv) |->
                    [kind |-> "instr", block_id |-> func.code[b].id, instr_idx |-> i - 1,
                     dst |-> cv[k].dst, src |-> cv[k].src]]])
        \o
        LET tv == coalescable_term_vars(func, func.code[b].id)
        IN  [k \in 1..Len(tv) |->
                [kind |-> "term", block_id |-> func.code[b].id, instr_idx |-> 0,
                 dst |-> tv[k].dst, src |-> tv[k].src]]])

\* try_merge_term; the result is the RegisterSet and whether the call panicked
try_merge_term(sets, block_id, dst, src, func, interf_graph) ==
    LET dst_set == sets[get_idx(sets, dst)]
        src_set == sets[get_idx(sets, src)]
        keep == [sets |-> sets, panic |-> FALSE]
    IN  IF get_idx(sets, dst) = get_idx(sets, src) THEN keep
        ELSE IF range_is_empty(dst_set.live_range) \/ range_is_empty(src_set.live_range)
        THEN [sets |-> sets, panic |-> TRUE]
        ELSE IF interferes(interf_graph, dst_set, src_set) THEN keep
        ELSE IF \E succ_block \in Successors(GetBlock(func, block_id).term) :
                    dst_set.live_range[succ_block].live_in
        THEN keep
        ELSE IF range_overlap(dst_set.live_range, src_set.live_range) = {}
        THEN [sets |-> merge(sets, dst, src), panic |-> FALSE]
        ELSE keep

\* try_merge without the test of the overlap of the two live ranges
try_merge_overlapping(sets, block_id, instr_idx, dst, src, interf_graph) ==
    LET dst_set == sets[get_idx(sets, dst)]
        src_set == sets[get_idx(sets, src)]
        keep == [sets |-> sets, panic |-> FALSE]
    IN  IF get_idx(sets, dst) = get_idx(sets, src) THEN keep
        ELSE IF interferes(interf_graph, dst_set, src_set) THEN keep
        ELSE IF range_is_empty(dst_set.live_range) THEN keep
        ELSE IF range_is_empty(src_set.live_range) THEN keep
        ELSE [sets |-> merge(sets, dst, src), panic |-> FALSE]

\* try_merge
try_merge(sets, block_id, instr_idx, dst, src, interf_graph) ==
    LET dst_set == sets[get_idx(sets, dst)]
        src_set == sets[get_idx(sets, src)]
        keep == [sets |-> sets, panic |-> FALSE]
    IN  IF get_idx(sets, dst) = get_idx(sets, src) THEN keep
        ELSE IF interferes(interf_graph, dst_set, src_set) THEN keep
        ELSE IF range_is_empty(dst_set.live_range) THEN keep
        ELSE IF range_is_empty(src_set.live_range) THEN keep
        ELSE IF range_overlap(dst_set.live_range, src_set.live_range) = {}
        THEN IF (instr_idx + 1) \notin dst_set.live_range[block_id].body
             THEN [sets |-> sets, panic |-> TRUE]
             ELSE [sets |-> merge(sets, dst, src), panic |-> FALSE]
        ELSE keep

\* one iteration of the loops of FullRegAlloc::analyze
attempt(sets, att, func, interf_graph) ==
    IF att.kind = "instr"
    THEN try_merge(sets, att.block_id, att.instr_idx, att.dst, att.src, interf_graph)
    ELSE try_merge_term(sets, att.block_id, att.dst, att.src, func, interf_graph)

RECURSIVE coalesce(_, _, _, _, _)
coalesce(sets, atts, i, func, interf_graph) ==
    IF i > Len(atts) THEN [sets |-> sets, panic |-> FALSE]
    ELSE LET r == attempt(sets, atts[i], func, interf_graph)
         IN  IF r.panic THEN r ELSE coalesce(r.sets, atts, i + 1, func, interf_graph)

\* FullRegAlloc::analyze: the allocator, and whether the analysis panicked
analyze(func) ==
    LET r == coalesce(RegisterSet(func), Attempts(func), 1, func, InterfGraph(func))
    IN  [ra |-> FullRegAlloc(func.code[1].id[1], to_map(r.sets)), panic |-> r.panic]

-----------------------------------------------------------------------------
(* SpecRA: FullRegAlloc::analyze, one coalescing attempt per step           *)

Blk(id, params, body, term) ==
    [id |-> id, blk |-> [params |-> params, body |-> body, term |-> term]]

JumpTarget(label, params) == [label |-> label, params |-> params]

Ty(is_wide) == IF is_wide THEN "I64" ELSE "I32"

\* The functions analysed: a diamond whose arms both feed the parameter p of
\* the join block.  One arm computes d = op(a, rhs), the other copies a into u.
\*     b0:      a = param 0; b = param 1; c = param 2; if c then b2 else b3
\*     b2:      d = op(a, rhs);  jump b1(d)
\*     b3:      u = copy(a);     jump b1(u)
\*     b1(p):   return p
\* wide_ops: the operands a, b are 64-bit; rhs: "var" (b), "same" (a), "const";
\* x_first: whether b2 precedes b3 in the function
RAFunc(op, wide_ops, rhs, x_first) ==
    LET a == 0  b == 1  c == 2  d == 3  u == 4  p == 5
        wide_dst == wide_ops /\ op \in {"Add", "Ctz", "Popcnt", "RemU", "Sub"}
        rhs_operand == CASE rhs = "var" -> Var(b)
                         [] rhs = "same" -> Var(a)
                         [] OTHER -> Lit(IF wide_ops THEN I64(1, 5) ELSE 5)
        the_instr == IF op \in {"Ctz", "Popcnt"} THEN [op |-> op, dst |-> d, src |-> Var(a)]
                     ELSE [op |-> op, dst |-> d, lhs |-> Var(a), rhs |-> rhs_operand]
        the_copy == [op |-> IF wide_dst = wide_ops THEN "Assign" ELSE "Wrap",
                     dst |-> u, src |-> Var(a)]
        E == Blk(BlockId(0, 0), <<>>,
                 <<[op |-> "ParamGet", dst |-> a, src |-> 0],
                   [op |-> "ParamGet", dst |-> b, src |-> 1],
                   [op |-> "ParamGet", dst |-> c, src |-> 2]>>,
                 [t |-> "BranchIf", cond |-> c,
                  true_target |-> JumpTarget(BlockId(0, 2), <<>>),
                  false_target |-> JumpTarget(BlockId(0, 3), <<>>)])
        X == Blk(BlockId(0, 2), <<>>, <<the_instr>>,
                 [t |-> "Jump", target |-> JumpTarget(BlockId(0, 1), <<d>>)])
        Y == Blk(BlockId(0, 3), <<>>, <<the_copy>>,
                 [t |-> "Jump", target |-> JumpTarget(BlockId(0, 1), <<u>>)])
        J == Blk(BlockId(0, 1), <<p>>, <<>>, [t |-> "Return", vars |-> <<p>>])
    IN  [params |-> <<Ty(wide_ops), Ty(wide_ops), "I32">>,
         locals |-> <<Ty(wide_ops), Ty(wide_ops), "I32">>,
         returns |-> <<Ty(wide_dst)>>,
         wide |-> (IF wide_ops THEN {a, b} ELSE {}) \cup (IF wide_dst THEN {d, u, p} ELSE {}),
         code |-> IF x_first THEN <<E, X, Y, J>> ELSE <<E, Y, X, J>>]

RAOps == {"Add", "Sub", "Ctz", "Popcnt", "RemU", "GtU", "GeU", "LtU", "LeU", "GtS", "GeS", "LtS", "LeS"}

RAFuncs ==
    {RAFunc(op, w, rhs, o) :
        op \in RAOps, w \in BOOLEAN, rhs \in {"var", "same", "const"}, o \in BOOLEAN}

\* A jump into a block whose parameter is never used:
\*     b0:      a = 5; jump b1(a)
\*     b1(p):   return
RADeadParam ==
    [params |-> <<>>, locals |-> <<>>, returns |-> <<>>, wide |-> {},
     code |-> <<Blk(BlockId(0, 0), <<>>, <<[op |-> "I32Set", dst |-> 0, val |-> 5]>>,
                    [t |-> "Jump", target |-> JumpTarget(BlockId(0, 1), <<0>>)]),
                Blk(BlockId(0, 1), <<1>>, <<>>, [t |-> "Return", vars |-> <<>>])>>]

\* A copy whose destination is never used:
\*     b0:      a = 5; u = copy(a); return a
RADeadCopy ==
    [params |-> <<>>, locals |-> <<>>, returns |-> <<"I32">>, wide |-> {},
     code |-> <<Blk(BlockId(0, 0), <<>>,
                    <<[op |-> "I32Set", dst |-> 0, val |-> 5],
                      [op |-> "Assign", dst |-> 1, src |-> Var(0)]>>,
                    [t |-> "Return", vars |-> <<0>>])>>]

\* The function of test::no_coalesce_dead_register (reg_alloc.rs 440-496):
\*     b0(r2, r3):  r3 = copy(r2); r4 = r3 | r3; return r2
\*     b1:          r0 = 42; r1 = 17; jump b0(r0, r1)
RATestFunc ==
    [params |-> <<>>, locals |-> <<>>, returns |-> <<"I32">>, wide |-> {},
     code |-> <<Blk(BlockId(0, 0), <<2, 3>>,
                    <<[op |-> "Assign", dst |-> 3, src |-> Var(2)],
                      [op |-> "Or", dst |-> 4, lhs |-> Var(3), rhs |-> Var(3)]>>,
                    [t |-> "Return", vars |-> <<2>>]),
                Blk(BlockId(0, 1), <<>>,
                    <<[op |-> "I32Set", dst |-> 0, val |-> 42],
                      [op |-> "I32Set", dst |-> 1, val |-> 17]>>,
                    [t |-> "Jump", target |-> JumpTarget(BlockId(0, 0), <<0, 1>>)])>>]

RAEdgeFuncs == {RADeadParam, RADeadCopy, RATestFunc}

RAInit ==
    /\ CopyIdle /\ LowerIdle /\ InstrIdle
    /\ ra_func \in RAFuncs \cup RAEdgeFuncs
    /\ ra_sets = RegisterSet(ra_func)
    /\ ra_pos = 1
    /\ ra_pc = "merge"

\* a pair of an instruction: try_merge
RATryMerge ==
    /\ ra_pc = "merge"
    /\ ra_pos <= Len(Attempts(ra_func))
    /\ Attempts(ra_func)[ra_pos].kind = "instr"
    /\ LET r == attempt(ra_sets, Attempts(ra_func)[ra_pos], ra_func, InterfGraph(ra_func))
       IN  /\ ra_sets' = r.sets
           /\ ra_pc' = IF r.panic THEN "panic" ELSE "merge"
    /\ ra_pos' = ra_pos + 1
    /\ UNCHANGED <<ra_func, cpVars, lwVars, siVars>>

\* a pair of a terminator: try_merge_term
RATryMergeTerm ==
    /\ ra_pc = "merge"
    /\ ra_pos <= Len(Attempts(ra_func))
    /\ Attempts(ra_func)[ra_pos].kind = "term"
    /\ LET r == attempt(ra_sets, Attempts(ra_func)[ra_pos], ra_func, InterfGraph(ra_func))
       IN  /\ ra_sets' = r.sets
           /\ ra_pc' = IF r.panic THEN "panic" ELSE "merge"
    /\ ra_pos' = ra_pos + 1
    /\ UNCHANGED <<ra_func, cpVars, lwVars, siVars>>

\* sets.to_map() is taken: the allocator is ready
RAFinish ==
    /\ ra_pc = "merge"
    /\ ra_pos > Len(Attempts(ra_func))
    /\ ra_pc' = "done"
    /\ UNCHANGED <<ra_func, ra_sets, ra_pos, cpVars, lwVars, siVars>>

RANext == RATryMerge \/ RATryMergeTerm \/ RAFinish

SpecRA == RAInit /\ [][RANext]_vars

\* the registers holding variable v
RegsOf(ra, wide, v) ==
    IF v \in wide THEN {ra_get_double(ra, v)[1], ra_get_double(ra, v)[2]}
    ELSE {ra_get(ra, v)}

\* the instructions of the claim: 64-bit Add, 64-bit Ctz, unsigned comparisons,
\* signed comparisons on 64-bit operands, 32-bit unsigned remainder
IsConstrained(func, instr) ==
    \/ instr.op \in {"Add", "Ctz"} /\ instr.dst \in func.wide
    \/ instr.op \in {"GtU", "GeU", "LtU", "LeU"}
    \/ instr.op \in {"GtS", "GeS", "LtS", "LeS"} /\ InstrUses(instr) \cap func.wide # {}
    \/ instr.op = "RemU" /\ instr.dst \notin func.wide

\* C4: after full register allocation, the destination and the operands of
\* every instruction carrying an interference constraint (64-bit Add, 64-bit
\* Ctz, unsigned comparisons, signed comparisons on 64-bit operands, 32-bit
\* unsigned remainder) lie in pairwise distinct registers; stated for the
\* operands that are distinct variables.
C4_ConstrainedDistinct ==
    ra_pc = "done" =>
        \A instr \in FuncInstrs(ra_func) :
            IsConstrained(ra_func, instr) =>
                \A x, y \in InstrDefs(instr) \cup InstrUses(instr) :
                    x # y =>
                        RegsOf(FullRegAlloc(0, to_map(ra_sets)), ra_func.wide, x)
                        \cap RegsOf(FullRegAlloc(0, to_map(ra_sets)), ra_func.wide, y) = {}

\* the same statement without the signed comparisons
C4_WithoutSigned ==
    ra_pc = "done" =>
        \A instr \in FuncInstrs(ra_func) :
            IsConstrained(ra_func, instr) /\ instr.op \notin {"GtS", "GeS", "LtS", "LeS"} =>
                \A x, y \in InstrDefs(instr) \cup InstrUses(instr) :
                    x # y =>
                        RegsOf(FullRegAlloc(0, to_map(ra_sets)), ra_func.wide, x)
                        \cap RegsOf(FullRegAlloc(0, to_map(ra_sets)), ra_func.wide, y) = {}

-----------------------------------------------------------------------------
(* The SSA programs lowered by Spec *)

I32Set(dst, val) == [op |-> "I32Set", dst |-> dst, val |-> val]
ParamGet(dst, idx) == [op |-> "ParamGet", dst |-> dst, src |-> idx]
Add(dst, lhs, rhs) == [op |-> "Add", dst |-> dst, lhs |-> lhs, rhs |-> rhs]
Store32(src, addr, offset) == [op |-> "Store32", src |-> src, addr |-> addr, offset |-> offset]
PrintInt(src) == [op |-> "PrintInt", src |-> src]
Call(function_index, params, returns) ==
    [op |-> "Call", function_index |-> function_index, params |-> params, returns |-> returns]
CallIndirect(table_index, table_entry, params, returns) ==
    [op |-> "CallIndirect", table_index |-> table_index, table_entry |-> table_entry,
     params |-> params, returns |-> returns]

Jump(label, params) == [t |-> "Jump", target |-> JumpTarget(label, params)]
BranchIf(cond, true_target, false_target) ==
    [t |-> "BranchIf", cond |-> cond, true_target |-> true_target, false_target |-> false_target]
BranchTable(cond, default, arms) ==
    [t |-> "BranchTable", cond |-> cond, default |-> default, arms |-> arms]
SsaReturn(vs) == [t |-> "Return", vars |-> vs]

SsaFunction(params, returns, wide, code) ==
    [params |-> params, locals |-> params, returns |-> returns, wide |-> wide, code |-> code]

\* Four functions and two tables.
\*   f0 ()      calls f1 directly, then loops over an indirect call through
\*              table 0, whose compatible entries are f2 (twice) and f3
\*   f1 (i32)->i32   calls itself
\*   f2 ()      a leaf
\*   f3 ()      calls f2 through table 1, then f0; it has no block 1
ProgCalls ==
    [funcs |-> <<
        SsaFunction(<<>>, <<>>, {}, <<
            Blk(BlockId(0, 0), <<>>,
                <<I32Set(0, 5), I32Set(1, 7), Call(1, <<0>>, <<2>>),
                  Add(3, Var(1), Var(2)), Add(4, Var(3), Var(0))>>,
                Jump(BlockId(0, 2), <<4>>)),
            Blk(BlockId(0, 2), <<5>>,
                <<PrintInt(5), CallIndirect(0, 5, <<>>, <<>>)>>,
                BranchIf(5, JumpTarget(BlockId(0, 2), <<5>>), JumpTarget(BlockId(0, 1), <<>>))),
            Blk(BlockId(0, 1), <<>>, <<>>, SsaReturn(<<>>))>>),
        SsaFunction(<<"I32">>, <<"I32">>, {}, <<
            Blk(BlockId(1, 0), <<>>,
                <<ParamGet(0, 0), I32Set(1, 3)>>,
                BranchIf(0, JumpTarget(BlockId(1, 2), <<>>), JumpTarget(BlockId(1, 1), <<0>>))),
            Blk(BlockId(1, 2), <<>>,
                <<Call(1, <<1>>, <<2>>), Add(3, Var(2), Var(0)), Add(4, Var(3), Var(1))>>,
                Jump(BlockId(1, 1), <<4>>)),
            Blk(BlockId(1, 1), <<5>>, <<>>, SsaReturn(<<5>>))>>),
        SsaFunction(<<>>, <<>>, {}, <<
            Blk(BlockId(2, 0), <<>>,
                <<I32Set(0, 9), Store32(0, Lit(16), 4)>>,
                SsaReturn(<<>>))>>),
        SsaFunction(<<>>, <<>>, {}, <<
            Blk(BlockId(3, 0), <<>>,
                <<I32Set(0, 0), CallIndirect(1, 0, <<>>, <<>>)>>,
                Jump(BlockId(3, 2), <<>>)),
            Blk(BlockId(3, 2), <<>>,
                <<Call(0, <<>>, <<>>), PrintInt(0)>>,
                SsaReturn(<<>>))>>)
      >>,
     tables |-> << <<Some(2), None, Some(3), Some(1), Some(2)>>, <<Some(2)>> >>]

\* One function with a loop, constants of both widths and every terminator.
\*   b0:      w0:i64 = param 0; n = param 1; jump b2(n)
\*   b2(i):   w2:i64 = w0 + 0x1_00000005; j = i + (-1); store j -> [16 + 4];
\*            store j -> [i + 8]; if j then b2(j) else b3
\*   b3:      table n: 0 -> b1(w2), 1 -> b5, default b4
\*   b4:      table n with no arms: default b2(j)
\*   b5:      jump b2(n)
\*   b1(w):   return w
ProgFlow ==
    [funcs |-> <<
        SsaFunction(<<"I64", "I32">>, <<"I64">>, {0, 3, 5}, <<
            Blk(BlockId(0, 0), <<>>,
                <<ParamGet(0, 0), ParamGet(1, 1)>>,
                Jump(BlockId(0, 2), <<1>>)),
            Blk(BlockId(0, 2), <<2>>,
                <<Add(3, Var(0), Lit(I64(1, 5))), Add(4, Var(2), Lit(-1)),
                  Store32(4, Lit(16), 4), Store32(4, Var(2), 8)>>,
                BranchIf(4, JumpTarget(BlockId(0, 2), <<4>>), JumpTarget(BlockId(0, 3), <<>>))),
            Blk(BlockId(0, 3), <<>>, <<>>,
                BranchTable(1, JumpTarget(BlockId(0, 4), <<>>),
                            <<JumpTarget(BlockId(0, 1), <<3>>), JumpTarget(BlockId(0, 5), <<>>)>>)),
            Blk(BlockId(0, 4), <<>>, <<>>,
                BranchTable(1, JumpTarget(BlockId(0, 2), <<4>>), <<>>)),
            Blk(BlockId(0, 5), <<>>, <<>>,
                Jump(BlockId(0, 2), <<1>>)),
            Blk(BlockId(0, 1), <<5>>, <<>>, SsaReturn(<<5>>))>>)
      >>,
     tables |-> <<>>]

\* Two calls of f1 in one block of f0; f1 calls through a table without a
\* function in it.
ProgTwoCalls ==
    [funcs |-> <<
        SsaFunction(<<>>, <<>>, {}, <<
            Blk(BlockId(0, 0), <<>>,
                <<I32Set(0, 1), Call(1, <<>>, <<>>), Call(1, <<>>, <<>>), PrintInt(0)>>,
                Jump(BlockId(0, 1), <<>>)),
            Blk(BlockId(0, 1), <<>>, <<>>, SsaReturn(<<>>))>>),
        SsaFunction(<<>>, <<>>, {}, <<
            Blk(BlockId(1, 0), <<>>,
                <<I32Set(0, 0), CallIndirect(0, 0, <<>>, <<>>)>>,
                SsaReturn(<<>>))>>)
      >>,
     tables |-> << <<None>> >>]

\* Two branch tables whose condition is a jump argument, and a second function.
\*   b0:      n = 0; jump b1(n)
\*   b1(i):   j = i + (-1); table i: 0 -> b1(j), default b2(i)
\*   b2(x):   table x: 0 -> b3(x), 1 -> b4, default b4
\*   b3(y):   print y; return
\*   b4:      return
\* In b1 the condition i is a parameter of the target b1; in b2 the condition
\* x is an argument of the jump to b3 and a parameter of no target.  A second
\* function stores to a constant address: both functions use constants.
ProgTable ==
    [funcs |-> <<
        SsaFunction(<<>>, <<>>, {}, <<
            Blk(BlockId(0, 0), <<>>,
                <<I32Set(0, 0)>>,
                Jump(BlockId(0, 1), <<0>>)),
            Blk(BlockId(0, 1), <<1>>,
                <<Add(2, Var(1), Lit(-1))>>,
                BranchTable(1, JumpTarget(BlockId(0, 2), <<1>>),
                            <<JumpTarget(BlockId(0, 1), <<2>>)>>)),
            Blk(BlockId(0, 2), <<3>>, <<>>,
                BranchTable(3, JumpTarget(BlockId(0, 4), <<>>),
                            <<JumpTarget(BlockId(0, 3), <<3>>),
                              JumpTarget(BlockId(0, 4), <<>>)>>)),
            Blk(BlockId(0, 3), <<4>>, <<PrintInt(4)>>, SsaReturn(<<>>)),
            Blk(BlockId(0, 4), <<>>, <<>>, SsaReturn(<<>>))>>),
        SsaFunction(<<>>, <<>>, {}, <<
            Blk(BlockId(1, 0), <<>>,
                <<I32Set(0, 7), Store32(0, Lit(32), 8)>>,
                SsaReturn(<<>>))>>)
      >>,
     tables |-> <<>>]

\* A call in the exit block, and a callee with a block that ends in Unreachable.
\*   f0:  b0: a = 1; jump b1 | b1: call f1(a); print a; return
\*   f1 (i32):  b0: x = param 0; if x then b2 else b1 | b2: unreachable | b1: return
ProgTrap ==
    [funcs |-> <<
        SsaFunction(<<>>, <<>>, {}, <<
            Blk(BlockId(0, 0), <<>>,
                <<I32Set(0, 1)>>,
                Jump(BlockId(0, 1), <<>>)),
            Blk(BlockId(0, 1), <<>>,
                <<Call(1, <<0>>, <<>>), PrintInt(0)>>,
                SsaReturn(<<>>))>>),
        SsaFunction(<<"I32">>, <<>>, {}, <<
            Blk(BlockId(1, 0), <<>>,
                <<ParamGet(0, 0)>>,
                BranchIf(0, JumpTarget(BlockId(1, 2), <<>>), JumpTarget(BlockId(1, 1), <<>>))),
            Blk(BlockId(1, 2), <<>>, <<>>, [t |-> "Unreachable"]),
            Blk(BlockId(1, 1), <<>>, <<>>, SsaReturn(<<>>))>>)
      >>,
     tables |-> <<>>]

\* One function that calls itself twice in one block, with a variable live
\* across both calls.
\*   f0:  b0: a = 1; call f0(); call f0(); print a; jump b1 | b1: return
ProgSaveTwice ==
    [funcs |-> <<
        SsaFunction(<<>>, <<>>, {}, <<
            Blk(BlockId(0, 0), <<>>,
                <<I32Set(0, 1), Call(0, <<>>, <<>>), Call(0, <<>>, <<>>), PrintInt(0)>>,
                Jump(BlockId(0, 1), <<>>)),
            Blk(BlockId(0, 1), <<>>, <<>>, SsaReturn(<<>>))>>)
      >>,
     tables |-> <<>>]

Programs == {ProgCalls, ProgFlow, ProgTwoCalls, ProgTable, ProgTrap, ProgSaveTwice}

\* the number of block parameters at which a pair of a parallel copy has the
\* index of the first temporary of the allocator
WidePairs == FirstTemp + 1

\* A loop block with WidePairs parameters whose last two are swapped on the
\* way round.
\*   b0:  a = 0; jump b2(a, ..., a)
\*   b2(p1, ..., pN):  if a then b2(a, ..., a, pN, pN-1) else b1
\*   b1:  return
ProgWide ==
    [funcs |-> <<
        SsaFunction(<<>>, <<>>, {}, <<
            Blk(BlockId(0, 0), <<>>,
                <<I32Set(0, 0)>>,
                Jump(BlockId(0, 2), [i \in 1..WidePairs |-> 0])),
            Blk(BlockId(0, 2), [i \in 1..WidePairs |-> i], <<>>,
                BranchIf(0,
                         JumpTarget(BlockId(0, 2),
                                    [i \in 1..WidePairs |->
                                        IF i = WidePairs - 1 THEN WidePairs
                                        ELSE IF i = WidePairs THEN WidePairs - 1
                                        ELSE 0]),
                         JumpTarget(BlockId(0, 1), <<>>))),
            Blk(BlockId(0, 1), <<>>, <<>>, SsaReturn(<<>>))>>)
      >>,
     tables |-> <<>>]

\* the programs with conditional branches, the wide one among them
WidePrograms == {ProgWide, ProgFlow, ProgTable}

-----------------------------------------------------------------------------
(* Spec: convert (lir_emitter.rs 1349-1379).  The functions are lowered by  *)
(* independent tasks; a task runs lower (1297-1347) on its function, one    *)
(* SSA instruction or terminator per step.                                  *)

\* the orders in which `to_save.into_iter().collect::<Vec<_>>()` can list a
\* HashSet: iteration order of a HashSet is unspecified
Perms(S) == {q \in [1..Cardinality(S) -> S] : Injective(q)}

TodoTask == [status |-> "todo", bpos |-> 0, ipos |-> 0, st |-> <<>>, out |-> <<>>]

\* the SSA function of task f and the SSA block it is at
TaskFunc(f) == ssa_program.funcs[f + 1]
TaskBlock(f) == TaskFunc(f).code[tasks[f].bpos]

\* const_prop is off: no static values
NoStaticValues == <<>>

\* the sets of suspending functions tried: none, any one function, all
Suspends(prog) ==
    {{}} \cup {{f} : f \in FuncIds(prog)} \cup {FuncIds(prog)}

Init ==
    /\ CopyIdle /\ RAIdle /\ InstrIdle
    /\ ssa_program \in Programs
    /\ suspending \in Suspends(ssa_program)
    /\ regalloc \in {"Noop", "Full"}
    /\ phase = "lower"
    /\ tasks = [f \in FuncIds(ssa_program) |-> TodoTask]
    /\ lir_program = <<>>
    /\ run = "first"
    /\ prev = <<>>
    /\ ex = <<>>

\* RegAllocMode::Auto falls back to the no-op allocator above this many
\* instructions
TooMuch == 1300

\* the fold of lower over the blocks: the number of instructions of the bodies
RECURSIVE instr_count(_)
instr_count(code) ==
    IF code = <<>> THEN 0
    ELSE Len(Head(code).blk.body) + instr_count(Tail(code))

\* the allocator lower picks for a function under ctx.regalloc
uses_full_alloc(mode, func) ==
    CASE mode = "Noop" -> FALSE
      [] mode = "Auto" -> ~(instr_count(func.code) > TooMuch)
      [] mode = "Full" -> TRUE

\* lower, up to the loop over the blocks: allocator, builder, liveness.  Every
\* element of the par_iter of convert may be entered while others are under way.
StartLower(f) ==
    /\ phase = "lower"
    /\ tasks[f].status = "todo"
    /\ LET func == TaskFunc(f)
           an == IF uses_full_alloc(regalloc, func) THEN analyze(func)
                 ELSE [ra |-> NoopRegAlloc(func.code[1].id[1]), panic |-> FALSE]
           st == [ra |-> an.ra, builder |-> LirFuncBuilder(func),
                  li |-> FullLivenessInfo(func),
                  block_id |-> func.code[1].id, block |-> <<>>, panic |-> an.panic,
                  calls |-> <<>>, allocs |-> <<>>]
       IN  /\ tasks' = [tasks EXCEPT ![f] =
                           [status |-> "run", bpos |-> 1, ipos |-> 0, st |-> st, out |-> <<>>]]
           /\ phase' = IF an.panic THEN "panic" ELSE "lower"
    /\ UNCHANGED <<ssa_program, suspending, regalloc, lir_program, run, prev, ex, cpVars, raVars, siVars>>

\* one iteration of the instruction loop of lower_block
LowerInstr(f) ==
    /\ phase = "lower"
    /\ tasks[f].status = "run"
    /\ tasks[f].ipos < Len(TaskBlock(f).blk.body)
    /\ LET instr == TaskBlock(f).blk.body[tasks[f].ipos + 1]
           saved == IF instr.op \in {"Call", "CallIndirect"}
                    THEN to_save_set(tasks[f].st, FuncVars(TaskFunc(f)), instr, tasks[f].ipos)
                    ELSE {{}}
       IN  \E to_save \in UNION {Perms(sv) : sv \in saved} :
             \E st \in {lower_instr(ssa_program, suspending, NoStaticValues, tasks[f].st,
                                    TaskBlock(f).id, TaskFunc(f), instr, tasks[f].ipos, to_save)} :
                 /\ tasks' = [tasks EXCEPT ![f].st = st, ![f].ipos = @ + 1]
                 /\ phase' = IF st.panic THEN "panic" ELSE "lower"
    /\ UNCHANGED <<ssa_program, suspending, regalloc, lir_program, run, prev, ex, cpVars, raVars, siVars>>

\* the terminator of lower_block; lower goes on with the next SSA block
LowerTerm(f) ==
    /\ phase = "lower"
    /\ tasks[f].status = "run"
    /\ tasks[f].ipos = Len(TaskBlock(f).blk.body)
    /\ \E st \in {lower_term(ssa_program, suspending, tasks[f].st, TaskFunc(f),
                             TaskBlock(f).id, TaskBlock(f).blk.term)} :
       LET last == tasks[f].bpos = Len(TaskFunc(f).code)
       IN  /\ tasks' = [tasks EXCEPT ![f] =
                 IF st.panic THEN [@ EXCEPT !.st = st]
                 ELSE IF last THEN [@ EXCEPT !.st = st, !.status = "lowered"]
                 ELSE [@ EXCEPT !.st = [st EXCEPT !.block_id =
                                           TaskFunc(f).code[tasks[f].bpos + 1].id,
                                        !.block = <<>>],
                                !.bpos = @ + 1, !.ipos = 0]]
           /\ phase' = IF st.panic THEN "panic" ELSE "lower"
    /\ UNCHANGED <<ssa_program, suspending, regalloc, lir_program, run, prev, ex, cpVars, raVars, siVars>>

\* the end of lower: prologue, epilogue, constant pool, LirFunction
FinishLower(f) ==
    /\ phase = "lower"
    /\ tasks[f].status = "lowered"
    /\ LET has_start == FindBlockIndex(tasks[f].st.builder.body, 0) # 0
       IN  /\ tasks' = [tasks EXCEPT ![f] =
                 IF ~has_start THEN @
                 ELSE [@ EXCEPT !.status = "done",
                                !.out = [consts |-> tasks[f].st.ra.const_pool,
                                         func |-> [code |-> finish_blocks(TaskFunc(f),
                                                                tasks[f].st.builder.body),
                                                   returns |-> TaskFunc(f).returns]]]]
           /\ phase' = IF has_start THEN "lower" ELSE "panic"
    /\ UNCHANGED <<ssa_program, suspending, regalloc, lir_program, run, prev, ex, cpVars, raVars, siVars>>

\* the pool of the function lowered last replaces the program's pool
convert_merge_last(prog, results) ==
    [code |-> [i \in 1..Len(prog.funcs) |-> results[i - 1].out.func],
     constants |-> results[Len(prog.funcs) - 1].out.consts]

\* collect::<Vec<_>>().into_iter().map(..) of convert (lir_emitter.rs 1360-1363):
\* the results in the order of ssa_program.code, every consts set added to
\* `constants`
convert_merge(prog, results) ==
    [code |-> [i \in 1..Len(prog.funcs) |-> results[i - 1].out.func],
     constants |-> UNION {results[f].out.consts : f \in DOMAIN results}]

\* the serial merge of convert: functions in SSA order, constants united
Merge ==
    /\ phase = "lower"
    /\ \A f \in DOMAIN tasks : tasks[f].status = "done"
    /\ lir_program' = convert_merge(ssa_program, tasks)
    /\ phase' = "done"
    /\ UNCHANGED <<ssa_program, suspending, regalloc, tasks, run, prev, ex, cpVars, raVars, siVars>>

\* convert is called again on the same SsaProgram with the same CompileContext
Relower ==
    /\ phase = "done"
    /\ run = "first"
    /\ run' = "second"
    /\ prev' = lir_program
    /\ lir_program' = <<>>
    /\ tasks' = [f \in FuncIds(ssa_program) |-> TodoTask]
    /\ phase' = "lower"
    /\ UNCHANGED <<ssa_program, suspending, regalloc, ex, cpVars, raVars, siVars>>

-----------------------------------------------------------------------------
(* The control flow of the emitted program (spec section 4.6: Call,         *)
(* PushReturnAddr, PopReturnAddr, ReturnToSaved; crate::lir is not part of  *)
(* the sources).  Data is not modelled: a conditional jump may take either  *)
(* way, a table jump any arm.                                               *)
(*   ex.at, ex.ip   the block being run and the next instruction in it      *)
(*   ex.frames      return points of the Call instructions in progress      *)
(*   ex.ras         the return-address stack                                *)

\* deepest call stack and return-address stack followed
MaxStack == 3

\* the emitted block with the given id
LirBlock(id) ==
    CHOOSE b \in SeqToSet(lir_program.code[id[1] + 1].code) : b.id = id

ExRunning == phase = "exec" /\ ex.pc = "run"

\* the instruction about to run, if the block has one left
ExAtInstr == ExRunning /\ ex.ip <= Len(LirBlock(ex.at).body)

ExInstr == LirBlock(ex.at).body[ex.ip]

ExAtTerm == ExRunning /\ ex.ip > Len(LirBlock(ex.at).body)

ExTerm == LirBlock(ex.at).term

ExUnchanged ==
    UNCHANGED <<ssa_program, suspending, regalloc, tasks, lir_program, run, prev, cpVars, raVars, siVars>>

\* the emitted program is entered at function f
ExecStart(f) ==
    /\ phase = "done"
    /\ run = "first"
    /\ phase' = "exec"
    /\ ex' = [pc |-> "run", at |-> BlockId(f, 0), ip |-> 1, frames |-> <<>>, ras |-> <<>>]
    /\ ExUnchanged

\* Call{func} and CallIndirect: the callee runs and comes back here
ExecCall ==
    /\ ExAtInstr
    /\ ExInstr.op \in {"Call", "CallIndirect"}
    /\ Len(ex.frames) < MaxStack
    /\ \E callee \in IF ExInstr.op = "Call" THEN {ExInstr.imm[1]}
                     ELSE FlattenOpt(ExInstr.imm) :
          ex' = [ex EXCEPT !.frames = Append(@, [at |-> ex.at, ip |-> ex.ip + 1]),
                           !.at = BlockId(callee, 0), !.ip = 1]
    /\ UNCHANGED phase
    /\ ExUnchanged

ExecPushReturnAddr ==
    /\ ExAtInstr
    /\ ExInstr.op = "PushReturnAddr"
    /\ Len(ex.ras) < MaxStack
    /\ ex' = [ex EXCEPT !.ras = Append(@, ExInstr.imm[1]), !.ip = @ + 1]
    /\ UNCHANGED phase
    /\ ExUnchanged

ExecPopReturnAddr ==
    /\ ExAtInstr
    /\ ExInstr.op = "PopReturnAddr"
    /\ ex' = IF ex.ras = <<>> THEN [ex EXCEPT !.pc = "fault"]
             ELSE [ex EXCEPT !.ras = SubSeq(@, 1, Len(@) - 1), !.ip = @ + 1]
    /\ UNCHANGED phase
    /\ ExUnchanged

\* every other instruction leaves the control flow alone
ExecOther ==
    /\ ExAtInstr
    /\ ExInstr.op \notin {"Call", "CallIndirect", "PushReturnAddr", "PopReturnAddr"}
    /\ ex' = [ex EXCEPT !.ip = @ + 1]
    /\ UNCHANGED phase
    /\ ExUnchanged

\* Jump, JumpIf, JumpTable
ExecJump ==
    /\ ExAtTerm
    /\ ExTerm.t \in {"Jump", "JumpIf", "JumpTable"}
    /\ \E label \in CASE ExTerm.t = "Jump" -> {ExTerm.target.label}
                      [] ExTerm.t = "JumpIf" -> {ExTerm.true_label.label, ExTerm.false_label.label}
                      [] OTHER -> FlattenOpt(ExTerm.arms) \cup FlattenOpt(<<ExTerm.default>>) :
          ex' = [ex EXCEPT !.at = label, !.ip = 1]
    /\ UNCHANGED phase
    /\ ExUnchanged

\* Return: back to the Call in progress, or out of the program
ExecReturn ==
    /\ ExAtTerm
    /\ ExTerm.t = "Return"
    /\ ex' = IF ex.frames = <<>> THEN [ex EXCEPT !.pc = "halt"]
             ELSE [ex EXCEPT !.at = ex.frames[Len(ex.frames)].at,
                             !.ip = ex.frames[Len(ex.frames)].ip,
                             !.frames = SubSeq(@, 1, Len(@) - 1)]
    /\ UNCHANGED phase
    /\ ExUnchanged

\* ReturnToSaved: consumes the return address pushed by the caller
ExecReturnToSaved ==
    /\ ExAtTerm
    /\ ExTerm.t = "ReturnToSaved"
    /\ ex' = IF ex.ras = <<>> THEN [ex EXCEPT !.pc = "halt"]
             ELSE [ex EXCEPT !.at = ex.ras[Len(ex.ras)], !.ip = 1,
                             !.ras = SubSeq(@, 1, Len(@) - 1)]
    /\ UNCHANGED phase
    /\ ExUnchanged

Next ==
    \/ \E f \in DOMAIN tasks : StartLower(f)
    \/ \E f \in DOMAIN tasks : LowerInstr(f)
    \/ \E f \in DOMAIN tasks : LowerTerm(f)
    \/ \E f \in DOMAIN tasks : FinishLower(f)
    \/ Merge
    \/ \E f \in DOMAIN tasks : ExecStart(f)
    \/ ExecCall
    \/ ExecPushReturnAddr
    \/ ExecPopReturnAddr
    \/ ExecOther
    \/ ExecJump
    \/ ExecReturn
    \/ ExecReturnToSaved

Spec == Init /\ [][Next]_vars

\* convert called twice on one program with one configuration: every function
\* suspends, under each of the three allocator modes
InitTwice ==
    /\ CopyIdle /\ RAIdle /\ InstrIdle
    /\ ssa_program \in Programs
    /\ suspending = FuncIds(ssa_program)
    /\ regalloc \in {"Noop", "Auto", "Full"}
    /\ phase = "lower"
    /\ tasks = [f \in FuncIds(ssa_program) |-> TodoTask]
    /\ lir_program = <<>>
    /\ run = "first"
    /\ prev = <<>>
    /\ ex = <<>>

NextTwice ==
    \/ \E f \in DOMAIN tasks : StartLower(f)
    \/ \E f \in DOMAIN tasks : LowerInstr(f)
    \/ \E f \in DOMAIN tasks : LowerTerm(f)
    \/ \E f \in DOMAIN tasks : FinishLower(f)
    \/ Merge
    \/ Relower

SpecTwice == InitTwice /\ [][NextTwice]_vars

\* convert of the programs with conditional branches under the no-op
\* allocator, up to the merged program
InitWide ==
    /\ CopyIdle /\ RAIdle /\ InstrIdle
    /\ ssa_program \in WidePrograms
    /\ suspending \in Suspends(ssa_program)
    /\ regalloc = "Noop"
    /\ phase = "lower"
    /\ tasks = [f \in FuncIds(ssa_program) |-> TodoTask]
    /\ lir_program = <<>>
    /\ run = "first"
    /\ prev = <<>>
    /\ ex = <<>>

NextWide ==
    \/ \E f \in DOMAIN tasks : StartLower(f)
    \/ \E f \in DOMAIN tasks : LowerInstr(f)
    \/ \E f \in DOMAIN tasks : LowerTerm(f)
    \/ \E f \in DOMAIN tasks : FinishLower(f)
    \/ Merge

SpecWide == InitWide /\ [][NextWide]_vars

-----------------------------------------------------------------------------
(* Properties of the lowering *)

\* the tasks that have started, and the functions whose LirFunction exists
Started == {f \in DOMAIN tasks : tasks[f].status # "todo"}
Lowered == {f \in DOMAIN tasks : tasks[f].status = "done"}

Merged == phase \in {"done", "exec"}

\* the call sites lowered so far in function f
CallSites(f) == tasks[f].st.calls

\* the instructions of an emitted function, block after block
LirInstrs(lir_func) == Flatten([i \in 1..Len(lir_func.code) |-> lir_func.code[i].body])

\* the register lists of the Push instructions of an emitted function, in order
PushLists(lir_func) ==
    LET pushes == SelectSeq(LirInstrs(lir_func), LAMBDA i : i.op = "Push")
    IN  [k \in 1..Len(pushes) |-> pushes[k].regs]

\* C2: at every call site (Call or CallIndirect) of function F the variables
\* saved are exactly live_out_body(block, instr_idx) minus the return variables
\* of the call, and the Push of them is emitted if and only if the call graph
\* says a possible callee can reach F; the emitted function holds exactly these
\* Push instructions.
C2_CallerSaves ==
    \A f \in Started :
        LET func == ssa_program.funcs[f + 1]
            li == FullLivenessInfo(func)
            sites == CallSites(f)
            pushed == SelectSeq(sites, LAMBDA c : c.pushed)
        IN  /\ \A k \in 1..Len(sites) :
                 /\ Injective(sites[k].saved)
                 /\ SeqToSet(sites[k].saved) =
                        live_out_body(li, sites[k].ssa_block, sites[k].instr_idx)
                            \ sites[k].returns
                 /\ sites[k].pushed <=>
                        \E c \in sites[k].callees : may_call(ssa_program, c, f)
            /\ f \in Lowered =>
                 PushLists(tasks[f].out.func) =
                     [k \in 1..Len(pushed) |->
                         get_save_reg_list(pushed[k].saved, func.wide, tasks[f].st.ra)]

\* a function with a call site that saves two variables and a function with a
\* call site whose live-out set is not empty and not saved
C2_Witness ==
    /\ phase = "done"
    /\ \E f \in Lowered : \E k \in 1..Len(CallSites(f)) :
          CallSites(f)[k].pushed /\ Len(CallSites(f)[k].saved) >= 2
    /\ \E f \in Lowered : \E k \in 1..Len(CallSites(f)) :
          ~CallSites(f)[k].pushed /\ Len(CallSites(f)[k].saved) >= 2

\* what the Call and CallIndirect arms do at every call site, whatever block
\* the oracle was asked about: the saved list has no variable twice and no
\* return variable, it is the live set after the call while the SSA block is
\* the one being filled, and the Push is emitted iff a callee may call F
C2_SavesOfAnswer ==
    \A f \in Started :
        LET func == ssa_program.funcs[f + 1]
            li == FullLivenessInfo(func)
            sites == CallSites(f)
            pushed == SelectSeq(sites, LAMBDA c : c.pushed)
        IN  /\ \A k \in 1..Len(sites) :
                 /\ Injective(sites[k].saved)
                 /\ SeqToSet(sites[k].saved) \cap sites[k].returns = {}
                 /\ SeqToSet(sites[k].saved) \subseteq FuncVars(func)
                 /\ sites[k].at = sites[k].ssa_block =>
                        SeqToSet(sites[k].saved) =
                            live_out_body(li, sites[k].ssa_block, sites[k].instr_idx)
                                \ sites[k].returns
                 /\ sites[k].pushed <=>
                        \E c \in sites[k].callees : may_call(ssa_program, c, f)
            /\ f \in Lowered =>
                 PushLists(tasks[f].out.func) =
                     [k \in 1..Len(pushed) |->
                         get_save_reg_list(pushed[k].saved, func.wide, tasks[f].st.ra)]

\* the SSA block whose lowering emitted the block with this id
SourceBlock(f, id) ==
    IF HasBlock(ssa_program.funcs[f + 1], id) THEN id
    ELSE (CHOOSE a \in SeqToSet(tasks[f].st.allocs) : a.id = id).owner

\* the LirJumpTargets of a terminator
LirTargets(term) ==
    CASE term.t = "Jump" -> {term.target}
      [] term.t = "JumpIf" -> {term.true_label, term.false_label}
      [] OTHER -> {}

\* C3: every jump target emitted by the lowering (of Jump, of JumpIf, of the
\* Jump of a zero-arm BranchTable or of a multi-tick call) has cmd_check true
\* if and only if the target block dominates the source block.
C3_CmdCheckIffDominates ==
    \A f \in Lowered :
        \A b \in SeqToSet(tasks[f].out.func.code) :
            \A target \in LirTargets(b.term) :
                target.cmd_check <=>
                    dominates(ssa_program.funcs[f + 1], target.label, SourceBlock(f, b.id))

\* every register named by an emitted function
LirRegs(lir_func) ==
    UNION {InstrRegs(i) : i \in SeqToSet(LirInstrs(lir_func))}
    \cup UNION {TermRegs(lir_func.code[i].term) : i \in 1..Len(lir_func.code)}

\* the 64-bit literals of an SSA function
WideLits(func) ==
    UNION {UNION {LET i == func.code[b].blk.body[k]
                  IN  IF i.op = "Add" /\ i.dst \in func.wide
                      THEN (IF IsVar(i.lhs) THEN {} ELSE {i.lhs[2]})
                           \cup (IF IsVar(i.rhs) THEN {} ELSE {i.rhs[2]})
                      ELSE {} : k \in 1..Len(func.code[b].blk.body)} :
           b \in 1..Len(func.code)}

\* C5: every constant register Const(v) that is an operand of an instruction
\* of the output program has v in the constant pool of the program, and so
\* have both 32-bit halves of every 64-bit constant, for any number of
\* functions and either allocator.
C5_ConstPool ==
    Merged =>
        \A i \in 1..Len(lir_program.code) :
            /\ \A r \in LirRegs(lir_program.code[i]) :
                   r.k = "Const" => r.b \in lir_program.constants
            /\ \A c \in WideLits(ssa_program.funcs[i]) :
                   {AsI32(c), HighI32(c)} \subseteq lir_program.constants
                   /\ {Const(AsI32(c)), Const(HighI32(c))} \subseteq LirRegs(lir_program.code[i])

\* a program lowered with the full allocator whose Add64 reads both halves of a
\* 64-bit constant next to 32-bit constants
C5_Witness ==
    /\ Merged
    /\ regalloc = "Full"
    /\ WideLits(ssa_program.funcs[1]) = {I64(1, 5)}
    /\ \E i \in SeqToSet(LirInstrs(lir_program.code[1])) :
          i.op = "Add64" /\ {Const(5), Const(1)} \subseteq InstrRegs(i)
    /\ Const(-1) \in LirRegs(lir_program.code[1])

\* C6: two lowerings of the same SSA program with the same configuration give
\* identical LIR: the same functions in the same order, the same block ids in
\* the same order, the same instruction sequences, the order of the registers
\* in every Push and Pop included.
C6_Deterministic ==
    (phase = "done" /\ run = "second") => lir_program = prev

\* the ids handed out by alloc_block_id while lowering f, in order
AllocIds(f) == [k \in 1..Len(tasks[f].st.allocs) |-> tasks[f].st.allocs[k].id]

\* the block ids of a list of emitted blocks, in order
BlockIds(blocks) == [k \in 1..Len(blocks) |-> blocks[k].id]

\* the block indices function f uses before its k-th allocation
UsedBefore(f, k) ==
    {id[2] : id \in SeqToSet(FuncBlockIds(ssa_program.funcs[f + 1]))}
    \cup {AllocIds(f)[j][2] : j \in 1..(k - 1)}

\* C7: after a function is lowered the block ids of the emitted blocks are
\* pairwise distinct and are exactly the SSA block ids of the function and the
\* ids alloc_block_id returned; alloc_block_id returns the smallest block
\* index not used in the function so far, never an SSA block id and never an
\* id it returned before.
C7_BlockIds ==
    \A f \in Started :
        LET ssa_ids == SeqToSet(FuncBlockIds(ssa_program.funcs[f + 1]))
            ids == AllocIds(f)
        IN  /\ \A k \in 1..Len(ids) :
                 /\ ids[k] \notin ssa_ids
                 /\ \A j \in 1..(k - 1) : ids[j] # ids[k]
                 /\ ids[k][1] = f
                 /\ ids[k][2] \notin UsedBefore(f, k)
                 /\ \A n \in 0..(ids[k][2] - 1) : n \in UsedBefore(f, k)
            /\ tasks[f].status \in {"lowered", "done"} =>
                 /\ Injective(BlockIds(tasks[f].st.builder.body))
                 /\ SeqToSet(BlockIds(tasks[f].st.builder.body)) = ssa_ids \cup SeqToSet(ids)
            /\ f \in Lowered =>
                 /\ Injective(BlockIds(tasks[f].out.func.code))
                 /\ SeqToSet(BlockIds(tasks[f].out.func.code)) = ssa_ids \cup SeqToSet(ids)

\* a lowered function with three allocations in one call site, and a lowered
\* function whose first allocation fills a gap below its largest SSA block index
C7_Witness ==
    /\ phase = "done"
    /\ \E f \in Lowered : Len(AllocIds(f)) >= 3
    /\ \E f \in Lowered :
          /\ Len(AllocIds(f)) >= 1
          /\ \E id \in SeqToSet(FuncBlockIds(ssa_program.funcs[f + 1])) :
                AllocIds(f)[1][2] < id[2]

\* the call sites of SSA block b of function f that closed a block
SplitSites(f, b) ==
    SelectSeq(CallSites(f), LAMBDA c : c.ssa_block = b /\ c.cont # None)

\* the trampolines of a call site in the order of their allocation
SiteTrampolines(f, site) ==
    SelectSeq(AllocIds(f), LAMBDA id : id \in site.trampolines)

\* the ids of the blocks the lowering of SSA block b pushes, in order: for each
\* call site that closes a block its trampolines and then the block it closes,
\* at the end the block the terminator closes
BlocksOf(f, b) ==
    LET sites == SplitSites(f, b)
    IN  Flatten([k \in 1..Len(sites) |->
                    Append(SiteTrampolines(f, sites[k]), sites[k].at)])
        \o <<IF sites = <<>> THEN b ELSE sites[Len(sites)].cont[1]>>

ClosingOrder(f) ==
    LET ids == FuncBlockIds(ssa_program.funcs[f + 1])
    IN  Flatten([k \in 1..Len(ids) |-> BlocksOf(f, ids[k])])

\* C8 as stated: in the block list of every lowered function the blocks with
\* SSA block ids come first, in SSA insertion order, and the freshly allocated
\* blocks come after them in the order of their allocation.
C8_SsaBlocksFirst ==
    \A f \in Lowered :
        BlockIds(tasks[f].out.func.code) =
            FuncBlockIds(ssa_program.funcs[f + 1]) \o AllocIds(f)

\* C8, amended: the block list of a lowered function is in the order in which
\* the blocks are closed: SSA block after SSA block in insertion order, and
\* within one SSA block, for each call site that closes a block, the
\* trampolines of the site in allocation order, then the block closed at the
\* site; the continuation of the last such site (or the SSA block itself when
\* there is none) comes last.  A continuation or trampoline therefore precedes
\* every SSA block lowered after it.
C8_ClosingOrder ==
    \A f \in Lowered :
        BlockIds(tasks[f].out.func.code) = ClosingOrder(f)

\* a lowered function with a mixed indirect call in a block that is not its
\* last: trampolines and continuation lie before a block with an SSA id
C8_Witness ==
    /\ phase = "done"
    /\ \E f \in Lowered : \E k \in 1..Len(CallSites(f)) :
          /\ CallSites(f)[k].kind = "IndirectMixed"
          /\ Cardinality(CallSites(f)[k].trampolines) = 2
          /\ \E i, j \in 1..Len(tasks[f].out.func.code) :
                /\ i < j
                /\ tasks[f].out.func.code[i].id = CallSites(f)[k].cont[1]
                /\ HasBlock(ssa_program.funcs[f + 1], tasks[f].out.func.code[j].id)

\* s is a prefix of t
IsPrefix(s, t) == Len(s) <= Len(t) /\ SubSeq(t, 1, Len(s)) = s

\* the instructions of a block that transfer control to a callee or touch the
\* return-address stack
CallOps(block) ==
    SelectSeq(block, LAMBDA i : i.op \in {"Call", "CallIndirect", "PushReturnAddr", "PopReturnAddr"})

\* task f lowers the instruction at its position in this step without aborting
LowersInstr(f) ==
    /\ f \in DOMAIN tasks
    /\ phase = "lower" /\ phase' = "lower"
    /\ tasks[f].status = "run" /\ tasks'[f].status = "run"
    /\ tasks'[f].bpos = tasks[f].bpos
    /\ tasks'[f].ipos = tasks[f].ipos + 1

\* the step of a single-tick direct call: one Call{func} in place
CallInPlace(f, fi) ==
    LET st == tasks[f].st
        st2 == tasks'[f].st
    IN  /\ st2.builder = st.builder
        /\ st2.block_id = st.block_id
        /\ st2.allocs = st.allocs
        /\ IsPrefix(st.block, st2.block)
        /\ CallOps(st2.block) = Append(CallOps(st.block), Lir("Call", <<>>, <<fi>>))

\* the step of a multi-tick direct call: the block is closed behind
\* PushReturnAddr(K) with a checked jump to the callee's entry, K is fresh and
\* is the block the lowering goes on in
CallClosesBlock(f, fi) ==
    LET st == tasks[f].st
        st2 == tasks'[f].st
        K == st2.block_id
        n == Len(st2.builder.body)
        closed == st2.builder.body[n]
    IN  /\ n = Len(st.builder.body) + 1
        /\ SubSeq(st2.builder.body, 1, n - 1) = st.builder.body
        /\ K \notin st.builder.used_ids
        /\ st2.builder.used_ids = st.builder.used_ids \cup {K}
        /\ st2.allocs = Append(st.allocs, [id |-> K, owner |-> TaskBlock(f).id])
        /\ closed.id = st.block_id
        /\ IsPrefix(st.block, closed.body)
        /\ closed.body[Len(closed.body)] = Lir("PushReturnAddr", <<>>, <<K>>)
        /\ CallOps(closed.body) = Append(CallOps(st.block), Lir("PushReturnAddr", <<>>, <<K>>))
        /\ closed.term = TJump(LirJumpTarget(BlockId(fi, 0), TRUE))
        /\ CallOps(st2.block) = <<>>

\* C9: a direct Call closes the current LIR block and allocates a fresh
\* continuation block K if and only if the callee is multi-tick; then the
\* closed block ends with PushReturnAddr(K) as its last body instruction and
\* has the terminator Jump(entry block 0 of the callee, cmd_check = true), and
\* the later instructions of the SSA block go into K; for a single-tick callee
\* one Call{func} is emitted in place and no block is allocated.
C9_DirectCall ==
    [][\A f \in DOMAIN tasks :
          LowersInstr(f) =>
              LET instr == TaskBlock(f).blk.body[tasks[f].ipos + 1]
              IN  IF instr.op = "Call"
                  THEN IF is_single_tick(ssa_program, suspending, instr.function_index)
                       THEN CallInPlace(f, instr.function_index)
                       ELSE CallClosesBlock(f, instr.function_index)
                  ELSE instr.op # "CallIndirect" =>
                          /\ tasks'[f].st.builder = tasks[f].st.builder
                          /\ tasks'[f].st.block_id = tasks[f].st.block_id
                          /\ IsPrefix(tasks[f].st.block, tasks'[f].st.block)]_vars

\* the lowering is inside the continuation of a multi-tick direct call, with an
\* instruction of the SSA block emitted into it, and a single-tick direct call
\* has been lowered in place in another function
C9_Witness ==
    /\ phase = "lower"
    /\ \E f \in Started : \E k \in 1..Len(CallSites(f)) :
          /\ tasks[f].status = "run"
          /\ CallSites(f)[k].kind = "Call"
          /\ ~CallSites(f)[k].single
          /\ tasks[f].st.block_id = CallSites(f)[k].cont[1]
          /\ tasks[f].ipos > CallSites(f)[k].instr_idx + 1
          /\ CallSites(f)[k].ssa_block = TaskBlock(f).id
    /\ \E f \in Lowered : \E k \in 1..Len(CallSites(f)) :
          CallSites(f)[k].kind = "Call" /\ CallSites(f)[k].single

\* the emitted block of function f with the given id
OutBlock(f, id) == CHOOSE b \in SeqToSet(tasks[f].out.func.code) : b.id = id

\* the compatible callees of the CallIndirect of a call site, slot by slot
SiteSlots(f, site) ==
    LET func == ssa_program.funcs[f + 1]
        instr == GetBlock(func, site.ssa_block).body[site.instr_idx + 1]
    IN  get_compatible_functions(ssa_program, ssa_program.tables[instr.table_index + 1],
                                 VarTys(func, instr.params), VarTys(func, instr.returns))

\* the mixed indirect call sites of the lowered function f
MixedSites(f) == SelectSeq(CallSites(f), LAMBDA c : c.kind = "IndirectMixed")

\* the trampoline blocks of the program with the continuation of their call site
Trampolines ==
    UNION {UNION {{[id |-> t, K |-> MixedSites(f)[k].cont[1]] : t \in MixedSites(f)[k].trampolines} :
                  k \in 1..Len(MixedSites(f))} : f \in Lowered}

\* C10: in a mixed single/multi-tick indirect call every single-tick arm
\* targets a trampoline block of its own made of Call{f}, PopReturnAddr and
\* Jump(K, cmd_check = false), the multi-tick arms target the entry of the
\* callee, and whenever the PopReturnAddr of a trampoline runs the top of the
\* return-address stack is the continuation K pushed at that call site.
C10_Trampolines ==
    /\ \A f \in Lowered : \A k \in 1..Len(MixedSites(f)) :
          LET site == MixedSites(f)[k]
              K == site.cont[1]
              slots == SiteSlots(f, site)
              closed == OutBlock(f, site.at)
              arms == closed.term.arms
          IN  /\ closed.term.t = "JumpTable"
              /\ closed.body[Len(closed.body)] = Lir("PushReturnAddr", <<>>, <<K>>)
              /\ Len(arms) = Len(slots)
              /\ \A i \in 1..Len(slots) :
                    IF slots[i] = None THEN arms[i] = None
                    ELSE IF is_single_tick(ssa_program, suspending, slots[i][1])
                    THEN /\ arms[i] # None
                         /\ arms[i][1] \in site.trampolines
                         /\ \A j \in 1..Len(slots) : j # i => arms[j] # arms[i]
                         /\ OutBlock(f, arms[i][1]).body =
                               <<Lir("Call", <<>>, <<slots[i][1]>>),
                                 Lir("PopReturnAddr", <<>>, <<>>)>>
                         /\ OutBlock(f, arms[i][1]).term = TJump(LirJumpTarget(K, FALSE))
                    ELSE arms[i] = Some(BlockId(slots[i][1], 0))
    /\ (ExAtInstr /\ ExInstr.op = "PopReturnAddr") =>
          /\ \E t \in Trampolines :
                /\ t.id = ex.at
                /\ ex.ras # <<>>
                /\ ex.ras[Len(ex.ras)] = t.K

\* the PopReturnAddr of a trampoline is about to run under the return address
\* of an enclosing multi-tick call, after the single-tick callee has returned
C10_Witness ==
    /\ ExAtInstr
    /\ ExInstr.op = "PopReturnAddr"
    /\ Len(ex.ras) = 2
    /\ ex.ras[1] # ex.ras[2]
    /\ ex.frames = <<>>
    /\ \E t \in Trampolines : t.id = ex.at

\* the function in slot i of a table has the parameter and return types of the
\* CallIndirect instr of function func
SlotCompatible(func, instr, i) ==
    LET slot == ssa_program.tables[instr.table_index + 1][i]
    IN  /\ slot # None
        /\ ssa_program.funcs[slot[1] + 1].params = VarTys(func, instr.params)
        /\ ssa_program.funcs[slot[1] + 1].returns = VarTys(func, instr.returns)

\* the callees a CallIndirect can reach
CompatibleCallees(func, instr) ==
    LET table == ssa_program.tables[instr.table_index + 1]
    IN  {table[i][1] : i \in {j \in 1..Len(table) : SlotCompatible(func, instr, j)}}

\* the step of a CallIndirect whose callees are all single-tick
IndirectInPlace(f, instr) ==
    LET st == tasks[f].st
        st2 == tasks'[f].st
        added == SubSeq(CallOps(st2.block), Len(CallOps(st.block)) + 1, Len(CallOps(st2.block)))
    IN  /\ st2.builder = st.builder
        /\ st2.block_id = st.block_id
        /\ st2.allocs = st.allocs
        /\ IsPrefix(st.block, st2.block)
        /\ IsPrefix(CallOps(st.block), CallOps(st2.block))
        /\ Len(added) = 1
        /\ added[1].op = "CallIndirect"
        /\ added[1].regs = <<ra_get(st.ra, instr.table_entry)>>

\* the step of a CallIndirect whose callees are all multi-tick
IndirectClosesBlock(f, instr) ==
    LET st == tasks[f].st
        st2 == tasks'[f].st
        K == st2.block_id
        n == Len(st2.builder.body)
        closed == st2.builder.body[n]
        table == ssa_program.tables[instr.table_index + 1]
    IN  /\ n = Len(st.builder.body) + 1
        /\ SubSeq(st2.builder.body, 1, n - 1) = st.builder.body
        /\ K \notin st.builder.used_ids
        /\ st2.builder.used_ids = st.builder.used_ids \cup {K}
        /\ st2.allocs = Append(st.allocs, [id |-> K, owner |-> TaskBlock(f).id])
        /\ closed.id = st.block_id
        /\ IsPrefix(st.block, closed.body)
        /\ CallOps(closed.body) = Append(CallOps(st.block), Lir("PushReturnAddr", <<>>, <<K>>))
        /\ closed.body[Len(closed.body)] = Lir("PushReturnAddr", <<>>, <<K>>)
        /\ closed.term.t = "JumpTable"
        /\ closed.term.cond = ra_get(st.ra, instr.table_entry)
        /\ closed.term.default = None
        /\ Len(closed.term.arms) = Len(table)
        /\ \A i \in 1..Len(table) :
              closed.term.arms[i] =
                  IF SlotCompatible(TaskFunc(f), instr, i)
                  THEN Some(BlockId(table[i][1], 0)) ELSE None
        /\ CallOps(st2.block) = <<>>

\* C11: a CallIndirect whose signature-compatible callees are all single-tick
\* emits exactly one CallIndirect instruction and allocates no block; when
\* they are all multi-tick (and there is one) a continuation K is allocated,
\* PushReturnAddr(K) is emitted and the block is closed with a JumpTable that
\* has one arm per table slot in slot order: the entry block of the callee for
\* a compatible slot, None for an empty or incompatible slot.
C11_IndirectCall ==
    [][\A f \in DOMAIN tasks :
          LowersInstr(f) =>
              LET instr == TaskBlock(f).blk.body[tasks[f].ipos + 1]
                  callees == CompatibleCallees(TaskFunc(f), instr)
              IN  instr.op = "CallIndirect" =>
                    /\ (\A c \in callees : is_single_tick(ssa_program, suspending, c))
                          => IndirectInPlace(f, instr)
                    /\ (callees # {} /\ \A c \in callees : ~is_single_tick(ssa_program, suspending, c))
                          => IndirectClosesBlock(f, instr)]_vars

\* both indirect calls of a program are lowered with all callees multi-tick:
\* one closes its block over a table with an empty and an incompatible slot and
\* two compatible callees, the other over a table of one slot
C11_Witness ==
    /\ phase = "done"
    /\ \E f \in Lowered : \E k \in 1..Len(CallSites(f)) :
          /\ CallSites(f)[k].kind = "IndirectMulti"
          /\ Len(OutBlock(f, CallSites(f)[k].at).term.arms) = 5
          /\ Cardinality(CallSites(f)[k].callees) = 2
    /\ \E f \in Lowered : \E k \in 1..Len(CallSites(f)) :
          /\ CallSites(f)[k].kind = "IndirectMulti"
          /\ Len(OutBlock(f, CallSites(f)[k].at).term.arms) = 1

\* an indirect call with a single-tick callee is lowered in place
C11_WitnessInPlace ==
    /\ phase = "done"
    /\ \E f \in Lowered : \E k \in 1..Len(CallSites(f)) :
          CallSites(f)[k].kind = "IndirectSingle" /\ CallSites(f)[k].callees # {}

\* the block of the builder of f with the given id
BuiltBlock(f, id) == CHOOSE b \in SeqToSet(tasks[f].st.builder.body) : b.id = id

\* the labels a terminator can jump to
TermLabels(term) ==
    CASE term.t = "Jump" -> {term.target.label}
      [] term.t = "JumpIf" -> {term.true_label.label, term.false_label.label}
      [] term.t = "JumpTable" -> FlattenOpt(term.arms) \cup FlattenOpt(<<term.default>>)
      [] OTHER -> {}

\* the callees an instruction calls in place
CalledInPlace(instr) ==
    IF instr.op = "Call" THEN {instr.imm[1]}
    ELSE IF instr.op = "CallIndirect" THEN FlattenOpt(instr.imm)
    ELSE {}

\* function g is entered by a caller's PushReturnAddr followed by a jump
EntersByJump(g) ==
    \E f \in Lowered : \E k \in 1..Len(CallSites(f)) :
        /\ CallSites(f)[k].cont # None
        /\ BlockId(g, 0) \in TermLabels(OutBlock(f, CallSites(f)[k].at).term)

\* function g is entered by a Call or CallIndirect instruction
EntersByCall(g) ==
    \E f \in Lowered : \E i \in SeqToSet(LirInstrs(tasks[f].out.func)) :
        g \in CalledInPlace(i)

\* the blocks of function g that close an SSA block ending in Return
ReturnBlockIds(g) ==
    LET code == ssa_program.funcs[g + 1].code
    IN  {BlocksOf(g, code[n].id)[Len(BlocksOf(g, code[n].id))] :
            n \in {m \in 1..Len(code) : code[m].blk.term.t = "Return"}}

\* function g has an SSA Return closed with this terminator
LeftBy(g, t) ==
    \E b \in SeqToSet(tasks[g].out.func.code) :
        b.id \in ReturnBlockIds(g) /\ b.term.t = t

\* the moves of the return variables vs of function f into the return registers
ReturnMoves(f, vs) ==
    LET wide == ssa_program.funcs[f + 1].wide
        ra == tasks[f].st.ra
    IN  Flatten([i \in 1..Len(vs) |->
            IF vs[i] \in wide
            THEN <<[op |-> "Assign", dst |-> [k |-> "Return", a |-> 0, b |-> i - 1, h |-> "Lo"],
                    src |-> ra_get_double(ra, vs[i])[1], conds |-> <<>>],
                   [op |-> "Assign", dst |-> [k |-> "Return", a |-> 0, b |-> i - 1, h |-> "Hi"],
                    src |-> ra_get_double(ra, vs[i])[2], conds |-> <<>>]>>
            ELSE <<[op |-> "Assign", dst |-> [k |-> "Return", a |-> 0, b |-> i - 1, h |-> "Lo"],
                    src |-> ra_get(ra, vs[i]), conds |-> <<>>]>>])

\* C12: a Return terminator moves each return variable into Return(i), lo
\* then hi for a 64-bit variable, and closes the block with Return if the
\* function is single-tick and with ReturnToSaved otherwise; so a function is
\* left through ReturnToSaved exactly when its callers enter it with
\* PushReturnAddr followed by a jump, and the address ReturnToSaved consumes is
\* the one pushed by a caller of the function.
C12_Return ==
    /\ \A f \in Lowered :
          \A n \in 1..Len(ssa_program.funcs[f + 1].code) :
              LET blk == ssa_program.funcs[f + 1].code[n]
                  ids == BlocksOf(f, blk.id)
                  closed == BuiltBlock(f, ids[Len(ids)])
                  moves == ReturnMoves(f, blk.blk.term.vars)
              IN  blk.blk.term.t = "Return" =>
                    /\ Len(closed.body) >= Len(moves)
                    /\ SubSeq(closed.body, Len(closed.body) - Len(moves) + 1,
                              Len(closed.body)) = moves
                    /\ closed.term.t =
                          IF is_single_tick(ssa_program, suspending, f)
                          THEN "Return" ELSE "ReturnToSaved"
    /\ Merged =>
          \A g \in FuncIds(ssa_program) :
              /\ ~(LeftBy(g, "Return") /\ LeftBy(g, "ReturnToSaved"))
              /\ EntersByJump(g) => (LeftBy(g, "ReturnToSaved") /\ ~EntersByCall(g))
              /\ EntersByCall(g) => (LeftBy(g, "Return") /\ ~EntersByJump(g))
    /\ (ExAtTerm /\ ExTerm.t = "ReturnToSaved" /\ ex.ras # <<>>) =>
          \E f \in Lowered : \E k \in 1..Len(CallSites(f)) :
              /\ CallSites(f)[k].cont = Some(ex.ras[Len(ex.ras)])
              /\ BlockId(ex.at[1], 0) \in TermLabels(OutBlock(f, CallSites(f)[k].at).term)
    /\ (ExAtTerm /\ ExTerm.t = "Return" /\ ex.frames # <<>>) =>
          LET fr == ex.frames[Len(ex.frames)]
          IN  ex.at[1] \in CalledInPlace(LirBlock(fr.at).body[fr.ip - 1])

\* a multi-tick function with a 32-bit return value, entered by a jump from a
\* call site, is about to run ReturnToSaved on the address its caller pushed
C12_Witness ==
    /\ ExAtTerm
    /\ ExTerm.t = "ReturnToSaved"
    /\ ex.ras # <<>>
    /\ ssa_program.funcs[ex.at[1] + 1].returns # <<>>
    /\ EntersByJump(ex.at[1])
    /\ \E g \in FuncIds(ssa_program) : EntersByCall(g) /\ LeftBy(g, "Return")

\* the coalescing attempt analyze is about to make
RAAttempt == Attempts(ra_func)[ra_pos]

RAAtAttempt == ra_pc = "merge" /\ ra_pos <= Len(Attempts(ra_func))

\* the merged registers of the two sides of the attempt
RADstSet == ra_sets[get_idx(ra_sets, RAAttempt.dst)]
RASrcSet == ra_sets[get_idx(ra_sets, RAAttempt.src)]

\* a side of the attempt is dead
RADeadSide ==
    range_is_empty(RADstSet.live_range) \/ range_is_empty(RASrcSet.live_range)

\* C13: a coalescing attempt in which the merged live range of either side is
\* empty is rejected without merging and without aborting the compile: the
\* register set is unchanged and the allocation goes on, for the pairs of
\* instructions and for the pairs of terminators.
C13_DeadRejected ==
    [][(RAAtAttempt /\ RADeadSide) => (ra_sets' = ra_sets /\ ra_pc' = "merge")]_vars

\* the same statement for the pairs of instructions only
C13_DeadRejectedInstr ==
    [][(RAAtAttempt /\ RADeadSide /\ RAAttempt.kind = "instr")
          => (ra_sets' = ra_sets /\ ra_pc' = "merge")]_vars

\* an attempt on an instruction pair with a dead side has been made
C13_WitnessInstr ==
    /\ ra_pos > 1
    /\ Attempts(ra_func)[ra_pos - 1].kind = "instr"
    /\ range_is_empty(ra_sets[get_idx(ra_sets, Attempts(ra_func)[ra_pos - 1].dst)].live_range)

\* C14: after any sequence of coalescing attempts no merged register holds
\* both a 32-bit variable and a 64-bit variable.
C14_NoMixedWidth ==
    \A i \in 1..Len(ra_sets) :
        \/ ra_sets[i].members \subseteq ra_func.wide
        \/ ra_sets[i].members \cap ra_func.wide = {}

\* the same statement for the functions without a Wrap
C14_NoMixedWidthNoWrap ==
    (\A instr \in FuncInstrs(ra_func) : instr.op # "Wrap") => C14_NoMixedWidth

\* a merge of two 64-bit variables has happened in a function without a Wrap
C14_WitnessNoWrap ==
    /\ \A instr \in FuncInstrs(ra_func) : instr.op # "Wrap"
    /\ \E i \in 1..Len(ra_sets) :
          Cardinality(ra_sets[i].members) >= 2 /\ ra_sets[i].members \subseteq ra_func.wide

\* the BranchTable terminators with an arm of the lowered functions, each with
\* the LIR block that closes its SSA block
TableSites ==
    UNION {{[f |-> f, term |-> ssa_program.funcs[f + 1].code[n].blk.term,
             closed |-> LET ids == BlocksOf(f, ssa_program.funcs[f + 1].code[n].id)
                        IN  BuiltBlock(f, ids[Len(ids)])] :
              n \in {m \in 1..Len(ssa_program.funcs[f + 1].code) :
                       LET t == ssa_program.funcs[f + 1].code[m].blk.term
                       IN  t.t = "BranchTable" /\ t.arms # <<>>}} :
           f \in Lowered}

\* the jump targets of a BranchTable, the default first
TableTargets(term) == <<term.default>> \o term.arms

\* the condition variable is an argument of one of the jumps
CondIsArg(site) ==
    \E i \in 1..Len(TableTargets(site.term)) :
        site.term.cond \in SeqToSet(TableTargets(site.term)[i].params)

\* the condition register is the register of a parameter of one of the targets
CondIsParam(site) ==
    \E i \in 1..Len(TableTargets(site.term)) :
        \E p \in SeqToSet(GetBlock(ssa_program.funcs[site.f + 1],
                                   TableTargets(site.term)[i].label).params) :
            ra_get(tasks[site.f].st.ra, p) = ra_get(tasks[site.f].st.ra, site.term.cond)

\* the closing JumpTable lists Some(arm label) in order and Some(default label)
TableShape(site) ==
    /\ site.closed.term.t = "JumpTable"
    /\ site.closed.term.arms =
          [i \in 1..Len(site.term.arms) |-> Some(site.term.arms[i].label)]
    /\ site.closed.term.default = Some(site.term.default.label)

\* the block copies the condition into a scratch register no earlier
\* instruction of the block mentions, then clears cond_taken; every later
\* instruction is a copy guarded by cond_taken = 0 and a test of the scratch,
\* and the JumpTable reads the scratch
CondStaged(site) ==
    LET body == site.closed.body
        cond0 == ra_get(tasks[site.f].st.ra, site.term.cond)
    IN  \E k \in 1..Len(body) :
          /\ body[k].op = "Assign" /\ body[k].src = cond0 /\ body[k].conds = <<>>
          /\ body[k].dst.k = "Temp" /\ body[k].dst # cond0
          /\ \A j \in 1..(k - 1) : body[k].dst \notin InstrRegs(body[j])
          /\ k < Len(body) /\ body[k + 1] = Lir("Set", <<CondTaken>>, <<0>>)
          /\ \A j \in (k + 2)..Len(body) :
                /\ body[j].op = "Assign" /\ Len(body[j].conds) = 2
                /\ body[j].conds[1] = CondEqZero(CondTaken)
                /\ body[j].conds[2].reg = body[k].dst
          /\ site.closed.term.cond = body[k].dst

\* the guards and the JumpTable read the register of the condition variable
\* itself, and no scratch holds a copy of it
CondNotStaged(site) ==
    LET body == site.closed.body
        cond0 == ra_get(tasks[site.f].st.ra, site.term.cond)
    IN  /\ site.closed.term.cond = cond0
        /\ \A j \in 1..Len(body) :
              body[j].op = "Assign" /\ body[j].src = cond0 => body[j].dst.k # "Temp"

\* C15 as stated: a BranchTable with an arm whose condition variable is an
\* argument of one of its jumps stages the condition into a fresh scratch that
\* every guard and the closing JumpTable read; the JumpTable lists
\* Some(arm label) in order and Some(default label).
C15_StagedWhenArg ==
    \A site \in TableSites : CondIsArg(site) => CondStaged(site) /\ TableShape(site)

\* C15: a BranchTable with an arm stages its condition into a fresh scratch,
\* read by every guard and by the closing JumpTable, exactly when the condition
\* register is the register of a parameter of one of the target blocks; the
\* JumpTable always lists Some(arm label) in order and Some(default label).
C15_StagedWhenParam ==
    \A site \in TableSites :
        /\ TableShape(site)
        /\ IF CondIsParam(site) THEN CondStaged(site) ELSE CondNotStaged(site)

\* a lowered function has a BranchTable whose condition is a parameter of a
\* target (staged) and one whose condition is only a jump argument
C15_Witness ==
    /\ \E site \in TableSites : CondIsParam(site) /\ CondIsArg(site) /\ CondStaged(site)
    /\ \E site \in TableSites : ~CondIsParam(site) /\ CondIsArg(site)

\* the constant pool task f has collected in its own allocator
TaskPool(f) == tasks[f].st.ra.const_pool

\* entry i of the output is the lowering of SSA function i - 1
InSsaOrder ==
    /\ Len(lir_program.code) = Len(ssa_program.funcs)
    /\ \A i \in 1..Len(lir_program.code) :
          /\ lir_program.code[i] = tasks[i - 1].out.func
          /\ lir_program.code[i].returns = ssa_program.funcs[i].returns
          /\ \A n \in 1..Len(ssa_program.funcs[i].code) :
                \E b \in SeqToSet(lir_program.code[i].code) :
                    b.id = ssa_program.funcs[i].code[n].id
          /\ \A b \in SeqToSet(lir_program.code[i].code) : b.id[1] = i - 1

\* C16: in whatever order the per-function tasks run and complete, the output
\* lists the functions in SSA order and the program's constant pool is the
\* union of the pools of the functions; the program (its pool included) is not
\* written while a task is still to finish: only the merge after all of them
\* writes it.
C16_SerialMerge ==
    /\ [](Merged => /\ InSsaOrder
                    /\ lir_program.constants = UNION {TaskPool(f) : f \in DOMAIN tasks})
    /\ [][(phase = "lower" /\ lir_program' # lir_program)
            => /\ \A f \in DOMAIN tasks : tasks[f].status = "done"
               /\ phase' = "done"]_vars

\* a merged program of several functions, two of them with non-empty pools
\* that differ
C16_Witness ==
    /\ Merged
    /\ Len(lir_program.code) >= 2
    /\ \E f, g \in DOMAIN tasks :
          /\ TaskPool(f) # {} /\ TaskPool(g) # {}
          /\ TaskPool(f) # TaskPool(g)

\* a later function is lowered before an earlier one has started, and its pool
\* is not empty
C16_WitnessOrder ==
    /\ phase = "lower"
    /\ \E f, g \in DOMAIN tasks :
          f < g /\ tasks[f].status = "todo" /\ tasks[g].status = "done" /\ TaskPool(g) # {}

\* four lowerings under way at once, each in the middle of a block, one of
\* them with a non-empty pool already
C16_WitnessOverlap ==
    /\ phase = "lower"
    /\ Cardinality(DOMAIN tasks) = 4
    /\ \A f \in DOMAIN tasks : tasks[f].status = "run" /\ tasks[f].ipos >= 1
    /\ \E f \in DOMAIN tasks : tasks[f].st.ra.const_pool # {}

\* the register pairs (source, destination) of the emit_copy under way
CopyPairs == reg_pairs(cp_in, cp_out, cp_wide, cp_ra)

\* the sources that are also the destination of some other pair
SourcesWritten ==
    {CopyPairs[j][1] : j \in {i \in 1..Len(CopyPairs) :
        \E k \in 1..Len(CopyPairs) : k # i /\ CopyPairs[i][1] = CopyPairs[k][2]}}

\* the sources of the pairs whose destination is the source of some pair
SourcesOfRead ==
    {CopyPairs[j][1] : j \in {i \in 1..Len(CopyPairs) :
        \E k \in 1..Len(CopyPairs) : CopyPairs[i][2] = CopyPairs[k][1]}}

\* the emitted block sends exactly the pairs with a source in nt through the
\* scratch Temp(i), i the 0-based index of the pair, and copies every other
\* pair by one direct Assign placed before every write of a scratch
RoutedBy(nt) ==
    LET rp == CopyPairs
        pos(instr) == {q \in 1..Len(cp_block) : cp_block[q] = instr}
        scratch_writes == {q \in 1..Len(cp_block) : cp_block[q].dst.k = "Temp"}
    IN  /\ \A j \in 1..Len(rp) :
              IF rp[j][1] \in nt
              THEN /\ \E q1 \in pos(LAssign(Temp(j - 1), rp[j][1])) :
                         \E q2 \in pos(LAssign(rp[j][2], Temp(j - 1))) : q1 < q2
                   /\ pos(LAssign(rp[j][2], rp[j][1])) = {}
              ELSE /\ \E q \in pos(LAssign(rp[j][2], rp[j][1])) :
                         \A w \in scratch_writes : q < w
                   /\ \A q \in 1..Len(cp_block) : cp_block[q].src # Temp(j - 1)
        /\ Len(cp_block) = Len(rp) + Cardinality({j \in 1..Len(rp) : rp[j][1] \in nt})

\* C17 as stated: needs-temp is the set of sources that are also the
\* destination of some other pair; exactly the pairs with a source in it go
\* through Temp(i), every other pair is a direct Assign before any scratch is
\* written.
C17_SourcesWritten == cp_pc \in {"exec", "done"} => RoutedBy(SourcesWritten)

\* C17: needs-temp is the set of sources of the pairs whose destination is the
\* source of some pair; exactly the pairs with a source in it go through
\* Temp(i), i the index of the pair, and every other pair is a direct Assign
\* emitted before any scratch is written.
C17_SourcesOfRead == cp_pc \in {"exec", "done"} => RoutedBy(SourcesOfRead)

\* an emitted chain a -> b, b -> c of 64-bit variables: the two sets differ,
\* the pairs of a go through scratches and the pairs of b are direct
C17_Witness ==
    /\ cp_pc = "done"
    /\ Len(CopyPairs) = 4
    /\ SourcesOfRead \cap SourcesWritten = {}
    /\ Cardinality(SourcesOfRead) = 2
    /\ Len(cp_block) = 6

\* the instructions the step of task f has emitted up to the transfer to the
\* callee, and those it has emitted for the point where the callee has
\* returned: behind the Call or CallIndirect in the same block when the call is
\* made in place, at the start of the continuation block when the block was
\* closed
CallStepParts(f) ==
    LET st == tasks[f].st
        st2 == tasks'[f].st
        n == Len(st.block)
    IN  IF st2.builder = st.builder
        THEN LET added == SubSeq(st2.block, n + 1, Len(st2.block))
                 at == CHOOSE k \in 1..Len(added) : added[k].op \in {"Call", "CallIndirect"}
             IN  [before |-> SubSeq(added, 1, at),
                  after |-> SubSeq(added, at + 1, Len(added)),
                  in_place |-> TRUE]
        ELSE LET closed == CHOOSE b \in SeqToSet(st2.builder.body) : b.id = st.block_id
             IN  [before |-> SubSeq(closed.body, n + 1, Len(closed.body)),
                  after |-> st2.block,
                  in_place |-> FALSE]

\* what follows the return of the callee: the Pop of the registers pushed, if
\* any were, then the moves out of the return registers
AfterReturn(f, instr, parts) ==
    LET pushes == SelectSeq(parts.before, LAMBDA i : i.op = "Push")
        moves == emit_copy_from_returns(<<>>, instr.returns, TaskFunc(f).wide, tasks[f].st.ra)
    IN  /\ Len(pushes) <= 1
        /\ \A k \in 1..Len(parts.before) : parts.before[k].op # "Pop"
        /\ parts.after =
              (IF pushes = <<>> THEN <<>> ELSE <<Lir("Pop", pushes[1].regs, <<>>)>>) \o moves

\* C18: when the lowering of a call emits a Push before the call, the first
\* instruction after the callee returns (behind the call in the same block for
\* a single-tick call, at the start of the continuation block otherwise) is a
\* Pop of the same registers in the same order, followed by the moves from
\* Return(i) into the return variables; without a Push there is no Pop.
C18_PopAfterReturn ==
    [][\A f \in DOMAIN tasks :
          (LowersInstr(f)
             /\ TaskBlock(f).blk.body[tasks[f].ipos + 1].op \in {"Call", "CallIndirect"})
          => AfterReturn(f, TaskBlock(f).blk.body[tasks[f].ipos + 1], CallStepParts(f))]_vars

\* a function is lowered in which a call made through a closed block saved
\* registers, its continuation starting with the Pop; another call site saved
\* two registers around a call in place that has a return variable
C18_Witness ==
    /\ \E f \in Lowered : \E k \in 1..Len(CallSites(f)) :
          /\ CallSites(f)[k].pushed /\ ~CallSites(f)[k].single
          /\ OutBlock(f, CallSites(f)[k].cont[1]).body[1].op = "Pop"
          /\ OutBlock(f, CallSites(f)[k].cont[1]).body[1].regs # <<>>
    /\ \E f \in Lowered : \E k \in 1..Len(CallSites(f)) :
          /\ CallSites(f)[k].pushed /\ CallSites(f)[k].single
          /\ Len(CallSites(f)[k].saved) >= 2
          /\ CallSites(f)[k].returns # {}

\* the live range of variable v of the function under analysis
RARange(v) == live_range(ra_func, FullLivenessInfo(ra_func), v)

\* two distinct variables of one work register are never live at the same point
RADisjointRanges ==
    \A x, y \in FuncVars(ra_func) :
        (x # y /\ to_map(ra_sets)[x] = to_map(ra_sets)[y])
            => range_overlap(RARange(x), RARange(y)) = {}

\* a step that changes the register set removes the sets of dst and src and
\* appends one set with the union of their members and of their live ranges
RAMergeUnions ==
    ra_sets' # ra_sets =>
        LET old == {ra_sets[i] : i \in 1..Len(ra_sets)}
            new == ra_sets'[Len(ra_sets')]
        IN  /\ RADstSet # RASrcSet
            /\ Len(ra_sets') = Len(ra_sets) - 1
            /\ new.members = RADstSet.members \cup RASrcSet.members
            /\ new.live_range = range_merge(RADstSet.live_range, RASrcSet.live_range)
            /\ {ra_sets'[i] : i \in 1..Len(ra_sets')} = (old \ {RADstSet, RASrcSet}) \cup {new}

\* C19: after FullRegAlloc::analyze any two distinct SSA variables mapped to
\* the same work register have live ranges that do not overlap (two different
\* arguments of one jump get different registers), and every merge unions the
\* member sets and the live ranges of the two registers.
C19_DisjointRanges ==
    /\ [](ra_pc = "done" => RADisjointRanges)
    /\ [][RAMergeUnions]_vars

\* the two arguments of one jump are in different registers
RAJumpArgsApart ==
    \A b \in 1..Len(ra_func.code) :
        LET term == ra_func.code[b].blk.term
        IN  term.t = "Jump" =>
              \A i, j \in 1..Len(term.target.params) :
                  term.target.params[i] # term.target.params[j]
                    => to_map(ra_sets)[term.target.params[i]]
                         # to_map(ra_sets)[term.target.params[j]]

\* the analysis has ended with a register of three variables or more, or with
\* the function of the test after both of its jump arguments were merged with
\* the parameters
C19_Witness ==
    /\ ra_pc = "done"
    /\ \E i \in 1..Len(ra_sets) : Cardinality(ra_sets[i].members) >= 3

C19_WitnessTest ==
    /\ ra_pc = "done"
    /\ ra_func = RATestFunc
    /\ RAJumpArgsApart
    /\ \E i \in 1..Len(ra_sets) : Cardinality(ra_sets[i].members) >= 2

\* the interference graph of the function under analysis
RAGraph == InterfGraph(ra_func)

\* some member of the set of dst is adjacent to some member of the set of src
RAAdjacent(dst, src) ==
    \E a \in ra_sets[get_idx(ra_sets, dst)].members :
        \E b \in ra_sets[get_idx(ra_sets, src)].members : <<a, b>> \in RAGraph

\* no register holds two variables joined by an edge
RANoAdjacentMembers ==
    \A i \in 1..Len(ra_sets) :
        \A x, y \in ra_sets[i].members : x # y => <<x, y>> \notin RAGraph

\* C20: at every point of the coalescing no merged register contains two
\* variables that are adjacent in the interference graph; an attempt is
\* rejected whenever any member of one register is adjacent to any member of
\* the other; the graph is symmetric.
C20_NoAdjacentMerged ==
    /\ [](ra_pc # "idle" =>
            /\ RANoAdjacentMembers
            /\ \A e \in RAGraph : <<e[2], e[1]>> \in RAGraph)
    /\ [][(RAAtAttempt /\ RAAdjacent(RAAttempt.dst, RAAttempt.src)) => ra_sets' = ra_sets]_vars

\* the attempt just made was on two registers, one of several members, with
\* live ranges that do not overlap and an edge between members that are not
\* both the variables of the attempt: it was rejected for the edge
C20_Witness ==
    /\ ra_pos > 1 /\ ra_pc = "merge"
    /\ LET att == Attempts(ra_func)[ra_pos - 1]
           dst_set == ra_sets[get_idx(ra_sets, att.dst)]
           src_set == ra_sets[get_idx(ra_sets, att.src)]
       IN  /\ dst_set # src_set
           /\ RAAdjacent(att.dst, att.src)
           /\ <<att.dst, att.src>> \notin RAGraph
           /\ Cardinality(dst_set.members) + Cardinality(src_set.members) >= 3
           /\ ~range_is_empty(dst_set.live_range) /\ ~range_is_empty(src_set.live_range)
           /\ range_overlap(dst_set.live_range, src_set.live_range) = {}

-----------------------------------------------------------------------------
(* 32-bit values.  A register holds a word <<h, l>> of two 16-bit halves,   *)
(* h the bits 31..16 and l the bits 15..0, so that no intermediate result   *)
(* leaves the range of the integers; all operations wrap modulo 2^32.       *)

W16 == 65536

\* the word of an i32 literal
ToWord(v) == <<(v \div W16) % W16, v % W16>>

add32(a, b) ==
    LET l == a[2] + b[2]
    IN  <<(a[1] + b[1] + (l \div W16)) % W16, l % W16>>

sub32(a, b) ==
    LET l == a[2] - b[2] + W16
    IN  <<(a[1] - b[1] + W16 - 1 + (l \div W16)) % W16, l % W16>>

\* the 32-bit product <<high half, low half>> of two 16-bit numbers
mul16(x, y) ==
    LET p1 == x * (y \div 256)
        p0 == x * (y % 256)
    IN  <<(p1 + (p0 \div 256)) \div 256, ((p1 % 256) * 256 + p0) % W16>>

mul32(a, b) ==
    <<(mul16(a[2], b[2])[1] + mul16(a[1], b[2])[2] + mul16(a[2], b[1])[2]) % W16,
      mul16(a[2], b[2])[2]>>

\* the full 64-bit product of two unsigned 32-bit words
mul_to_64(a, b) ==
    LET p00 == mul16(a[2], b[2])
        p01 == mul16(a[2], b[1])
        p10 == mul16(a[1], b[2])
        p11 == mul16(a[1], b[1])
        s1 == p00[1] + p01[2] + p10[2]
        s2 == p01[1] + p10[1] + p11[2] + (s1 \div W16)
    IN  [lo |-> <<s1 % W16, p00[2]>>,
         hi |-> <<(p11[1] + (s2 \div W16)) % W16, s2 % W16>>]

RECURSIVE ones(_)
ones(n) == IF n = 0 THEN 0 ELSE (n % 2) + ones(n \div 2)

\* the number of one bits of a word
popcount(a) == ones(a[1]) + ones(a[2])

-----------------------------------------------------------------------------
(* Execution of LIR instructions on register values (spec sections 4.5 and  *)
(* 4.6; crate::lir is not part of the sources).  A work register never      *)
(* written holds the value it had before the sequence, a constant register  *)
(* its constant.  Memory is not written by the sequences run here: the cell *)
(* at an address holds the address itself.                                  *)

\* the value no program has put into a scratch register
Undef == <<-1, -1>>

read_reg(regs, vals, r) ==
    IF r.k = "Const" THEN ToWord(r.b)
    ELSE IF r \in DOMAIN regs THEN regs[r]
    ELSE IF r.k = "Work" THEN (IF r.h = "Lo" THEN vals[r.b].lo ELSE vals[r.b].hi)
    ELSE Undef

write_reg(regs, r, v) ==
    [x \in (DOMAIN regs) \cup {r} |-> IF x = r THEN v ELSE regs[x]]

exec_instr(regs, vals, instr) ==
    LET rd(r) == read_reg(regs, vals, r)
    IN  CASE instr.op = "Assign" -> write_reg(regs, instr.dst, rd(instr.src))
          [] instr.op = "Set" -> write_reg(regs, instr.regs[1], ToWord(instr.imm[1]))
          [] instr.op = "Add" ->
                write_reg(regs, instr.regs[1], add32(rd(instr.regs[1]), rd(instr.regs[2])))
          [] instr.op = "Sub" ->
                write_reg(regs, instr.regs[1], sub32(rd(instr.regs[1]), rd(instr.regs[2])))
          [] instr.op = "Mul" ->
                write_reg(regs, instr.regs[1], mul32(rd(instr.regs[1]), rd(instr.regs[2])))
          [] instr.op = "MulTo64" ->
                LET p == mul_to_64(rd(instr.regs[3]), rd(instr.regs[4]))
                IN  write_reg(write_reg(regs, instr.regs[1], p.lo), instr.regs[2], p.hi)
          [] instr.op = "PopcntAdd" ->
                write_reg(regs, instr.regs[1],
                          add32(rd(instr.regs[1]), ToWord(popcount(rd(instr.regs[2])))))
          [] instr.op = "Load32" -> write_reg(regs, instr.regs[1], rd(instr.regs[2]))
          [] OTHER -> regs

-----------------------------------------------------------------------------
(* SpecInstr: one SSA instruction with destination variable 0 and operand   *)
(* variables 1 and 2, lowered under a register assignment and run           *)

InstrVarIds == 0..2

\* the maps RegisterSet::to_map can give three variables: every variable goes
\* to the smallest member of its register
InstrMaps ==
    {m \in [InstrVarIds -> InstrVarIds] : \A v \in InstrVarIds : m[v] <= v /\ m[m[v]] = m[v]}

\* operand values at the limits of the word and of its halves
Words == {<<0, 0>>, <<0, 1>>, <<0, 65535>>, <<32768, 0>>, <<65535, 65535>>}

DoubleWords ==
    {[lo |-> <<0, 0>>, hi |-> <<0, 0>>], [lo |-> <<0, 3>>, hi |-> <<0, 0>>],
     [lo |-> <<65535, 65535>>, hi |-> <<65535, 65535>>],
     [lo |-> <<32768, 1>>, hi |-> <<0, 2>>], [lo |-> <<1, 65535>>, hi |-> <<32768, 0>>]}

InstrOperands(w) ==
    IF w THEN {Var(1), Var(2), Lit(I64(-1, -3)), Lit(I64(1, 5))}
    ELSE {Var(1), Var(2), Lit(-1), Lit(5)}

ArithInstrs(w) ==
    {[op |-> o, dst |-> 0, lhs |-> l, rhs |-> r] :
        o \in (IF w THEN {"Mul"} ELSE {"Add", "Sub", "Mul"}),
        l \in InstrOperands(w) \ {Var(2)}, r \in InstrOperands(w)}

MemInstrs ==
    {Store32(0, a, o) : a \in {Var(1), Lit(16)}, o \in {0, 4}}
    \cup {[op |-> "Load32U", dst |-> 0, addr |-> a, offset |-> o] :
            a \in {Var(1), Lit(16)}, o \in {0, 4}}

InstrInit ==
    /\ CopyIdle /\ RAIdle /\ LowerIdle
    /\ si_pc = "emit"
    /\ si_wide \in {{}, InstrVarIds}
    /\ si_instr \in ArithInstrs(si_wide # {})
                    \cup {[op |-> "Popcnt", dst |-> 0, src |-> Var(1)]}
                    \cup (IF si_wide = {} THEN MemInstrs ELSE {})
    /\ si_static \in IF si_instr.op \in {"Store32", "Load32U"}
                     THEN {<<>>, [v \in {1} |-> 16]} ELSE {<<>>}
    /\ \E ra \in {NoopRegAlloc(0)} \cup {FullRegAlloc(0, m) : m \in InstrMaps} :
          /\ si_st = [ra |-> ra, block |-> <<>>, panic |-> FALSE]
          /\ si_vals \in [InstrVarIds -> (IF si_wide = {}
                                         THEN {[lo |-> w, hi |-> <<0, 0>>] : w \in Words}
                                         ELSE DoubleWords)]
          \* a register no variable of the instruction is in holds zero
          /\ \A r \in InstrVarIds :
                (\A v \in InstrDefs(si_instr) \cup InstrUses(si_instr) : ra_get(ra, v).b # r)
                    => si_vals[r] = [lo |-> <<0, 0>>, hi |-> <<0, 0>>]
    /\ si_regs = <<>>
    /\ si_ip = 1

\* the arm of lower_block for the instruction
InstrEmit ==
    /\ si_pc = "emit"
    /\ \E st \in {CASE si_instr.op = "Add" -> lower_add(si_st, si_wide, si_instr)
                    [] si_instr.op = "Sub" -> lower_sub(si_st, si_wide, si_instr)
                    [] si_instr.op = "Mul" -> lower_mul(si_st, si_wide, si_instr)
                    [] si_instr.op = "Popcnt" -> lower_popcnt(si_st, si_wide, si_instr)
                    [] si_instr.op = "Store32" -> lower_store32(si_st, si_static, si_instr)
                    [] si_instr.op = "Load32U" -> lower_load32(si_st, si_static, si_instr)} :
          /\ si_st' = st
          /\ si_pc' = IF st.panic THEN "panic" ELSE "exec"
    /\ UNCHANGED <<si_instr, si_wide, si_static, si_vals, si_regs, si_ip, cpVars, raVars, lwVars>>

\* the next emitted instruction runs
InstrExec ==
    /\ si_pc = "exec"
    /\ si_ip <= Len(si_st.block)
    /\ si_regs' = exec_instr(si_regs, si_vals, si_st.block[si_ip])
    /\ si_ip' = si_ip + 1
    /\ UNCHANGED <<si_pc, si_instr, si_wide, si_static, si_vals, si_st, cpVars, raVars, lwVars>>

InstrFinish ==
    /\ si_pc = "exec"
    /\ si_ip > Len(si_st.block)
    /\ si_pc' = "done"
    /\ UNCHANGED <<si_instr, si_wide, si_static, si_vals, si_st, si_regs, si_ip,
                   cpVars, raVars, lwVars>>

InstrNext == InstrEmit \/ InstrExec \/ InstrFinish

SpecInstr == InstrInit /\ [][InstrNext]_vars

-----------------------------------------------------------------------------
(* Arithmetic under register aliasing                                       *)

\* the value of an operand before the sequence runs
operand_word(o) ==
    IF IsVar(o) THEN si_vals[ra_get(si_st.ra, o[2]).b].lo ELSE ToWord(o[2])

\* the value the destination holds after the sequence
result_word == read_reg(si_regs, si_vals, ra_get(si_st.ra, si_instr.dst))

arith32(op, a, b) ==
    CASE op = "Add" -> add32(a, b)
      [] op = "Sub" -> sub32(a, b)
      [] op = "Mul" -> mul32(a, b)

Arith32Done ==
    /\ si_pc = "done"
    /\ si_instr.op \in {"Add", "Sub", "Mul"}
    /\ si_wide = {}

\* C21: after the sequence emitted for a 32-bit Add, Sub or Mul has run, the
\* destination register holds (lhs op rhs) mod 2^32 of the values the operands
\* had before it, whichever of the registers of dst, lhs and rhs coincide
C21_ArithAliasing ==
    Arith32Done =>
        result_word = arith32(si_instr.op, operand_word(si_instr.lhs), operand_word(si_instr.rhs))

\* a subtraction whose destination shares the register of rhs but not of lhs
\* has run on non-zero operands
C21_Witness ==
    /\ Arith32Done
    /\ si_instr.op = "Sub"
    /\ IsVar(si_instr.lhs) /\ IsVar(si_instr.rhs)
    /\ ra_get(si_st.ra, si_instr.dst) = ra_get(si_st.ra, si_instr.rhs[2])
    /\ ra_get(si_st.ra, si_instr.dst) # ra_get(si_st.ra, si_instr.lhs[2])
    /\ operand_word(si_instr.lhs) = <<0, 1>>
    /\ operand_word(si_instr.rhs) = <<65535, 65535>>
    /\ result_word = <<0, 2>>

-----------------------------------------------------------------------------
(* 64-bit multiplication                                                    *)

\* (x * y) mod 2^64 of two 64-bit values, column by column over 16-bit limbs
mul64(x, y) ==
    LET a == <<x.lo[2], x.lo[1], x.hi[2], x.hi[1]>>
        b == <<y.lo[2], y.lo[1], y.hi[2], y.hi[1]>>
        lo(i, j) == mul16(a[i], b[j])[2]
        hi(i, j) == mul16(a[i], b[j])[1]
        c1 == lo(1, 1)
        c2 == hi(1, 1) + lo(1, 2) + lo(2, 1)
        c3 == hi(1, 2) + hi(2, 1) + lo(1, 3) + lo(2, 2) + lo(3, 1) + (c2 \div W16)
        c4 == hi(1, 3) + hi(2, 2) + hi(3, 1)
              + lo(1, 4) + lo(2, 3) + lo(3, 2) + lo(4, 1) + (c3 \div W16)
    IN  [lo |-> <<c2 % W16, c1>>, hi |-> <<c4 % W16, c3 % W16>>]

operand_dword(o) ==
    IF IsVar(o) THEN si_vals[ra_get(si_st.ra, o[2]).b]
    ELSE [lo |-> ToWord(AsI32(o[2])), hi |-> ToWord(HighI32(o[2]))]

result_dword ==
    [lo |-> read_reg(si_regs, si_vals, ra_get_double(si_st.ra, si_instr.dst)[1]),
     hi |-> read_reg(si_regs, si_vals, ra_get_double(si_st.ra, si_instr.dst)[2])]

Mul64 == si_pc # "idle" /\ si_instr.op = "Mul" /\ si_wide # {}

Mul64Done == Mul64 /\ si_pc = "done"

\* the register pair of an operand of the 64-bit instruction
operand_pair(o) == map_ra_i64(si_st.ra, o).reg

DstAliasesOperand ==
    \/ ra_get_double(si_st.ra, si_instr.dst) = operand_pair(si_instr.lhs)
    \/ ra_get_double(si_st.ra, si_instr.dst) = operand_pair(si_instr.rhs)

\* the multiply instructions of the emitted sequence
Multiplies == {i \in 1..Len(si_st.block) : si_st.block[i].op \in {"Mul", "MulTo64"}}

ScratchIsIntermediate ==
    \E i \in 1..Len(si_st.block) :
        si_st.block[i].op = "MulTo64" /\ si_st.block[i].regs[1].k = "Temp"

Mul64Correct ==
    /\ Mul64 => si_pc # "panic"
    /\ Mul64Done =>
          /\ result_dword = mul64(operand_dword(si_instr.lhs), operand_dword(si_instr.rhs))
          /\ ScratchIsIntermediate <=> DstAliasesOperand

\* C22 (as stated): the lowering of a 64-bit Mul has four multiplies, leaves
\* (lhs * rhs) mod 2^64 in dst for every aliasing pattern, goes through the
\* 64-bit scratch exactly when dst is the register pair of lhs or rhs, and
\* its assertions hold
C22_FourMultiplies ==
    /\ Mul64Correct
    /\ Mul64Done => Cardinality(Multiplies) = 4

\* C22 (amended): as above, with three multiplies: one MulTo64 of the low
\* halves and two Mul of a low half with the other operand's high half
C22_ThreeMultiplies ==
    /\ Mul64Correct
    /\ Mul64Done =>
          /\ Cardinality(Multiplies) = 3
          /\ Cardinality({i \in Multiplies : si_st.block[i].op = "MulTo64"}) = 1

\* a 64-bit square x = x * x in place has run on a value with both halves set
C22_Witness ==
    /\ Mul64Done
    /\ si_instr.lhs = Var(1) /\ si_instr.rhs = Var(1)
    /\ ra_get_double(si_st.ra, 0) = ra_get_double(si_st.ra, 1)
    /\ ScratchIsIntermediate
    /\ operand_dword(si_instr.lhs) = [lo |-> <<32768, 1>>, hi |-> <<0, 2>>]
    /\ result_dword = [lo |-> <<0, 1>>, hi |-> <<16384, 5>>]

-----------------------------------------------------------------------------
(* Popcnt                                                                   *)

PopcntDone == si_pc = "done" /\ si_instr.op = "Popcnt"

\* the registers of dst and src of the Popcnt are the same
PopcntShared == ra_get(si_st.ra, si_instr.dst) = ra_get(si_st.ra, si_instr.src[2])

popcount_of_src ==
    IF si_wide = {} THEN ToWord(popcount(operand_word(si_instr.src)))
    ELSE ToWord(popcount(operand_dword(si_instr.src).lo)
                + popcount(operand_dword(si_instr.src).hi))

PopcntResult ==
    IF si_wide = {} THEN result_word = popcount_of_src
    ELSE result_dword = [lo |-> popcount_of_src, hi |-> <<0, 0>>]

\* C23: after the lowered Popcnt sequence has run, dst holds the population
\* count of the value src had before it (for I64 in dst.lo, with dst.hi = 0),
\* under every register assignment, dst and src in one register included
C23_PopcntResult == PopcntDone => PopcntResult

\* the same for the assignments that keep dst and src in different registers
C23_PopcntApart == (PopcntDone /\ ~PopcntShared) => PopcntResult

\* a Popcnt of a 64-bit value with bits in both halves has run, dst and src in
\* different registers
C23_WitnessApart ==
    /\ PopcntDone /\ ~PopcntShared /\ si_wide # {}
    /\ operand_dword(si_instr.src) = [lo |-> <<32768, 1>>, hi |-> <<0, 2>>]
    /\ result_dword = [lo |-> <<0, 3>>, hi |-> <<0, 0>>]

\* the analysis has put dst and src of a Popcnt into one register
PopcntCoalesced ==
    /\ ra_pc = "done"
    /\ \E instr \in FuncInstrs(ra_func) :
          /\ instr.op = "Popcnt"
          /\ to_map(ra_sets)[instr.dst] = to_map(ra_sets)[instr.src[2]]

-----------------------------------------------------------------------------
(* Addresses of loads and stores                                            *)

MemEmitted == si_pc \in {"exec", "done"} /\ si_instr.op \in {"Store32", "Load32U"}

\* the Store32 / Load32 closing the emitted sequence
mem_instr == si_st.block[Len(si_st.block)]

base_is_literal == ~IsVar(si_instr.addr)

\* the propagated StaticValue of the base variable is a constant
base_is_static == IsVar(si_instr.addr) /\ si_instr.addr[2] \in DOMAIN si_static

base_value == IF IsVar(si_instr.addr) THEN si_static[si_instr.addr[2]] ELSE si_instr.addr[2]

\* the address operand is the constant register of base + offset, taken from
\* the pool, and nothing is computed at run time
AddressFolded ==
    /\ mem_instr.regs[2] = Const(base_value + si_instr.offset)
    /\ (base_value + si_instr.offset) \in si_st.ra.const_pool
    /\ Len(si_st.block) = 1

\* the address is computed in the scratch register: Assign; Add(offset)
AddressInTemp ==
    /\ Len(si_st.block) = 3
    /\ si_st.block[1] = LAssign(Temp(0), map_ra_i32(si_st.ra, si_instr.addr).reg)
    /\ si_st.block[2] = Lir("Add", <<Temp(0), Const(si_instr.offset)>>, <<>>)
    /\ mem_instr.regs[2] = Temp(0)

\* C24: when the base address of a load or store is a known constant, a
\* literal or a variable whose propagated StaticValue is a constant, the
\* address operand is the constant register of base + offset with the value
\* in the pool; the scratch register is computed only otherwise
C24_KnownBaseFolded ==
    MemEmitted =>
        /\ (base_is_literal \/ base_is_static) => AddressFolded
        /\ AddressInTemp => ~(base_is_literal \/ base_is_static)

\* the same for literal bases only: a literal base is folded, a variable base
\* is never folded, whatever its StaticValue
C24_LiteralBaseFolded ==
    MemEmitted =>
        /\ base_is_literal => AddressFolded
        /\ AddressInTemp => ~base_is_literal
        /\ ~base_is_literal => mem_instr.regs[2].k # "Const"

\* a store to the literal base 16 with offset 4 has been lowered to a store
\* to the constant register 20
C24_WitnessLiteral ==
    /\ MemEmitted /\ si_instr.op = "Store32"
    /\ si_instr.addr = Lit(16) /\ si_instr.offset = 4
    /\ AddressFolded
    /\ mem_instr.regs[2] = Const(20)

-----------------------------------------------------------------------------
(* Conditional branches: the guarded copies and the closing jump            *)

\* the BranchIf terminators and the BranchTable terminators with an arm of
\* the lowered functions, each with the LIR block that closes its SSA block
BranchSites ==
    UNION {{[f |-> f, term |-> ssa_program.funcs[f + 1].code[n].blk.term,
             closed |-> LET ids == BlocksOf(f, ssa_program.funcs[f + 1].code[n].id)
                        IN  BuiltBlock(f, ids[Len(ids)])] :
              n \in {m \in 1..Len(ssa_program.funcs[f + 1].code) :
                       LET t == ssa_program.funcs[f + 1].code[m].blk.term
                       IN  t.t = "BranchIf" \/ (t.t = "BranchTable" /\ t.arms # <<>>)}} :
           f \in Lowered}

\* the position of the Set(cond_taken, 0) of the terminator
ClearAt(site) ==
    CHOOSE k \in 1..Len(site.closed.body) :
        /\ site.closed.body[k] = Lir("Set", <<CondTaken>>, <<0>>)
        /\ \A j \in (k + 1)..Len(site.closed.body) :
              site.closed.body[j] # Lir("Set", <<CondTaken>>, <<0>>)

\* the guards the lowering gives the copies of the i-th target (BranchIf: true
\* then false; BranchTable: default, then the arms)
TargetGuards(site, i) ==
    LET cond == site.closed.term.cond
    IN  IF site.term.t = "BranchIf"
        THEN (IF i = 1 THEN <<CondEqZero(CondTaken), CondNeqZero(cond)>>
              ELSE <<CondEqZero(CondTaken), CondEqZero(cond)>>)
        ELSE (IF i = 1
              THEN <<CondEqZero(CondTaken), CondNotMatches(cond, 0, Len(site.term.arms) - 1)>>
              ELSE <<CondEqZero(CondTaken), CondEqConst(cond, i - 2)>>)

\* the guarded copies of the i-th target
TargetGroup(site, i) ==
    {j \in (ClearAt(site) + 1)..Len(site.closed.body) :
        site.closed.body[j].op = "Assign" /\ site.closed.body[j].conds = TargetGuards(site, i)}

\* runtime values of the condition: below, inside and above every arm range
CondValues == -1..3

\* the value of a register that holds neither the condition nor cond_taken
OtherValue == 77

int_val(regs, r) ==
    IF r \in DOMAIN regs THEN regs[r] ELSE IF r.k = "Const" THEN r.b ELSE OtherValue

\* Condition::Matches / NotMatches on the current register values
cond_holds(regs, c) ==
    IF c.c = "Matches" THEN c.lo <= int_val(regs, c.reg) /\ int_val(regs, c.reg) <= c.hi
    ELSE ~(c.lo <= int_val(regs, c.reg) /\ int_val(regs, c.reg) <= c.hi)

guards_hold(regs, conds) == \A n \in 1..Len(conds) : cond_holds(regs, conds[n])

\* the instructions body[k..] run: the registers at the end and the guarded
\* copies that were carried out
RECURSIVE run_guarded(_, _, _, _)
run_guarded(body, k, regs, fired) ==
    IF k > Len(body) THEN [regs |-> regs, fired |-> fired]
    ELSE IF body[k].op = "Set"
    THEN run_guarded(body, k + 1, write_reg(regs, body[k].regs[1], body[k].imm[1]), fired)
    ELSE IF body[k].op = "Assign" /\ guards_hold(regs, body[k].conds)
    THEN run_guarded(body, k + 1, write_reg(regs, body[k].dst, int_val(regs, body[k].src)),
                     fired \cup {k})
    ELSE run_guarded(body, k + 1, regs, fired)

\* the tail of the closing block run with the condition register holding v
\* and cond_taken left set by an earlier branch
BranchRun(site, v) ==
    run_guarded(site.closed.body, ClearAt(site),
                [r \in {site.closed.term.cond, CondTaken} |->
                    IF r = CondTaken THEN 1 ELSE v],
                {})

\* the label JumpIf / JumpTable transfers to on the register values
taken_label(term, regs) ==
    IF term.t = "JumpIf"
    THEN (IF int_val(regs, term.cond) # 0 THEN term.true_label.label ELSE term.false_label.label)
    ELSE (IF int_val(regs, term.cond) \in 0..(Len(term.arms) - 1)
          THEN term.arms[int_val(regs, term.cond) + 1][1]
          ELSE term.default[1])

\* the targets whose guards hold once cond_taken is cleared
EnabledTargets(site, v) ==
    {i \in 1..Len(TermTargets(site.term)) :
        guards_hold([r \in {site.closed.term.cond, CondTaken} |->
                        IF r = CondTaken THEN 0 ELSE v],
                    TargetGuards(site, i))}

\* C25: for every runtime value of the condition of a BranchIf or of a
\* BranchTable with an arm, exactly one target has its guards enabled, the
\* guarded copies carried out are exactly those of that target, and the
\* closing JumpIf / JumpTable transfers to that target
C25_OneGroupIsTarget ==
    \A site \in BranchSites : \A v \in CondValues :
        /\ Cardinality(EnabledTargets(site, v)) = 1
        /\ \A i \in EnabledTargets(site, v) :
              /\ BranchRun(site, v).fired = TargetGroup(site, i)
              /\ taken_label(site.closed.term, BranchRun(site, v).regs)
                    = TermTargets(site.term)[i].label

\* a BranchTable with two arms whose arm 0 carries a copy has been lowered, and
\* a BranchIf whose true target carries a copy: value 0 carries out the copy of
\* arm 0 and goes there, a non-zero value the copy of the true target
C25_Witness ==
    /\ \E site \in BranchSites :
          /\ site.term.t = "BranchTable" /\ Len(site.term.arms) = 2
          /\ TargetGroup(site, 2) # {}
          /\ BranchRun(site, 0).fired = TargetGroup(site, 2)
          /\ BranchRun(site, 2).fired = {}
          /\ taken_label(site.closed.term, BranchRun(site, 0).regs) = site.term.arms[1].label
    /\ \E site \in BranchSites :
          /\ site.term.t = "BranchIf"
          /\ TargetGroup(site, 1) # {}
          /\ BranchRun(site, 3).fired = TargetGroup(site, 1)
          /\ BranchRun(site, 0).fired = {}

\* the instructions that follow the one fixing the condition register (the
\* staging Assign, or the last instruction before the terminator's own) up to
\* the jump: the Set of cond_taken and the guarded copies
AfterCondFixed(site) == ClearAt(site)..Len(site.closed.body)

InstrWrites(instr) ==
    CASE instr.op = "Assign" -> {instr.dst}
      [] instr.op = "Set" -> {instr.regs[1]}
      [] OTHER -> {}

\* C26: between the instruction fixing the register of the branch condition
\* and the closing JumpIf / JumpTable no emitted instruction writes that
\* register, neither as destination of a guarded copy nor as scratch
C26_CondNotWritten ==
    \A site \in BranchSites : \A j \in AfterCondFixed(site) :
        site.closed.term.cond \notin InstrWrites(site.closed.body[j])

\* every parallel copy of the terminator has at most FirstTemp register
\* pairs, so that none of its scratch registers Temp(0), Temp(1), ... is a
\* register of get_temp
NarrowCopies(site) ==
    \A i \in 1..Len(TermTargets(site.term)) :
        2 * Len(TermTargets(site.term)[i].params) <= FirstTemp

\* the same for the branches whose copies stay below the first temporary
C26_CondNotWrittenNarrow ==
    \A site \in BranchSites :
        NarrowCopies(site) =>
            \A j \in AfterCondFixed(site) :
                site.closed.term.cond \notin InstrWrites(site.closed.body[j])

\* a BranchIf has been lowered whose condition is staged in Temp(FirstTemp)
\* and whose guarded copy of the true target saves a source in that register
C26_ScratchIsCond ==
    \E site \in BranchSites :
        /\ site.term.t = "BranchIf"
        /\ site.closed.term.cond = Temp(FirstTemp)
        /\ \E j \in AfterCondFixed(site) :
              /\ site.closed.body[j].op = "Assign"
              /\ site.closed.body[j].dst = Temp(FirstTemp)
              /\ site.closed.body[j].src = Work(0, WidePairs - 1, "Lo")
              /\ site.closed.body[j].conds # <<>>

\* a BranchTable has been lowered whose guarded copy writes the register of
\* the condition variable, the condition being staged in a scratch register
\* that the staging Assign writes right before cond_taken is cleared
C26_Witness ==
    \E site \in BranchSites :
        /\ site.term.t = "BranchTable"
        /\ site.closed.term.cond.k = "Temp"
        /\ ClearAt(site) > 1
        /\ site.closed.body[ClearAt(site) - 1] =
              LAssign(site.closed.term.cond, ra_get(tasks[site.f].st.ra, site.term.cond))
        /\ \E j \in AfterCondFixed(site) :
              /\ site.closed.body[j].op = "Assign"
              /\ site.closed.body[j].conds # <<>>
              /\ ra_get(tasks[site.f].st.ra, site.term.cond) \in InstrWrites(site.closed.body[j])

-----------------------------------------------------------------------------
(* The return-address stack during execution                                *)

\* the executor is at a plain Return with no Call instruction in progress:
\* the function running was entered at the start of the program or by a jump
ExAtBareReturn == ExAtTerm /\ ExTerm.t = "Return" /\ ex.frames = <<>>

\* the program has a block that ends in Unreachable
HasUnreachable ==
    \E f \in FuncIds(ssa_program) :
        \E n \in 1..Len(ssa_program.funcs[f + 1].code) :
            ssa_program.funcs[f + 1].code[n].blk.term.t = "Unreachable"

ReturnStackBalanced ==
    phase = "exec" =>
        \* no PopReturnAddr finds the stack empty
        /\ ex.pc # "fault"
        \* a trampoline's PopReturnAddr consumes the address its jump goes to
        /\ (ExAtInstr /\ ExInstr.op = "PopReturnAddr" /\ ex.ras # <<>>)
              => ExTerm = TJump(LirJumpTarget(ex.ras[Len(ex.ras)], FALSE))
        \* a function entered by a jump after PushReturnAddr is not left by Return
        /\ ExAtBareReturn => ex.ras = <<>>
        \* the program ends with every pushed address consumed
        /\ ex.pc = "halt" => ex.ras = <<>> /\ ex.frames = <<>>

\* C27: in every execution the return-address stack is balanced: every
\* PushReturnAddr(K) is consumed once, by the ReturnToSaved of the function
\* entered or by the PopReturnAddr of a trampoline that goes on at K, and a
\* function entered by a jump after PushReturnAddr is never left through a
\* plain Return, blocks lowered from Unreachable included
C27_ReturnStackBalanced == ReturnStackBalanced

\* the same for the programs without an Unreachable terminator
C27_BalancedWithoutUnreachable == ~HasUnreachable => ReturnStackBalanced

\* a ReturnToSaved is about to consume the address pushed by a call made from
\* a function that was itself entered through a pushed address
C27_WitnessNested ==
    /\ ExAtTerm /\ ExTerm.t = "ReturnToSaved"
    /\ ~HasUnreachable
    /\ Len(ex.ras) >= 2
    /\ ex.ras[Len(ex.ras)][1] # ex.ras[1][1]

-----------------------------------------------------------------------------
(* The local frame during execution                                         *)

ExitBlockId(f) == BlockId(f, 1)

\* the LIR blocks pushed for the designated exit block of function f
ExitParts(f) ==
    IF HasBlock(ssa_program.funcs[f + 1], ExitBlockId(f))
    THEN SeqToSet(BlocksOf(f, ExitBlockId(f))) ELSE {}

\* the exit block of some function was split by a call
ExitSplit ==
    \E f \in FuncIds(ssa_program) :
        HasBlock(ssa_program.funcs[f + 1], ExitBlockId(f))
        /\ SplitSites(f, ExitBlockId(f)) # <<>>

\* block 1 of every function that has one is its exit: it ends in Return
ExitsReturn ==
    \A f \in FuncIds(ssa_program) :
        HasBlock(ssa_program.funcs[f + 1], ExitBlockId(f)) =>
            GetBlock(ssa_program.funcs[f + 1], ExitBlockId(f)).term.t = "Return"

\* the PopLocalFrame instructions of the emitted function f, as <<block, index>>
PopFrames(f) ==
    UNION {{<<b.id, i>> : i \in {j \in 1..Len(b.body) : b.body[j].op = "PopLocalFrame"}} :
            b \in SeqToSet(lir_program.code[f + 1].code)}

\* the function being run has a designated exit block
ExInExitFunc == ExRunning /\ HasBlock(ssa_program.funcs[ex.at[1] + 1], ExitBlockId(ex.at[1]))

FrameBracket ==
    (phase = "exec" /\ ExitsReturn) =>
        \* PushLocalFrame runs first, at the entry of the function
        /\ (ExAtInstr /\ ExInstr.op = "PushLocalFrame") => (ex.at[2] = 0 /\ ex.ip = 1)
        /\ (ExRunning /\ ex.at[2] = 0 /\ ex.ip = 1) =>
              (ExAtInstr /\ ExInstr.op = "PushLocalFrame")
        \* PopLocalFrame runs last, right before a return terminator
        /\ (ExInExitFunc /\ ExAtInstr /\ ExInstr.op = "PopLocalFrame") =>
              (ex.ip = Len(LirBlock(ex.at).body) /\ ExTerm.t \in {"Return", "ReturnToSaved"})
        \* a return out of the exit block has run the one PopLocalFrame
        /\ (ExAtTerm /\ ExTerm.t \in {"Return", "ReturnToSaved"}
                /\ ex.at \in ExitParts(ex.at[1])) =>
              PopFrames(ex.at[1]) = {<<ex.at, Len(LirBlock(ex.at).body)>>}

\* C28: on every path from the entry of a lowered function to a Return or
\* ReturnToSaved that leaves through the designated exit block, PushLocalFrame
\* is the first instruction run and PopLocalFrame runs once, as the last
\* instruction before the return terminator, after every call of the exit
\* block, also when a multi-tick call has split the exit block
C28_FrameBracket == FrameBracket

\* the same for the programs whose exit blocks are closed by no call
C28_FrameUnsplit == phase = "exec" => (ExitSplit \/ FrameBracket)

\* the executor is about to return out of an exit block that holds a
\* single-tick call, right after the PopLocalFrame that ends its body
C28_WitnessUnsplit ==
    /\ ExAtTerm /\ ExTerm.t \in {"Return", "ReturnToSaved"}
    /\ ~ExitSplit /\ ExitsReturn
    /\ ex.at = ExitBlockId(ex.at[1])
    /\ PopFrames(ex.at[1]) = {<<ex.at, Len(LirBlock(ex.at).body)>>}
    /\ \E i \in 1..Len(LirBlock(ex.at).body) : LirBlock(ex.at).body[i].op = "Call"

-----------------------------------------------------------------------------
(* The point at which the liveness oracle is asked for a call               *)

\* the oracle was asked about the SSA block of the call: call site c was
\* lowered while c.at, the block being filled, was the SSA block
AskedAtSsaPoint(f) ==
    \A k \in 1..Len(CallSites(f)) : CallSites(f)[k].at = CallSites(f)[k].ssa_block

\* call site k of f saves live_out_body(B, i) \ returns
SavesLiveOut(f, k) ==
    SeqToSet(CallSites(f)[k].saved) =
        live_out_body(tasks[f].st.li, CallSites(f)[k].ssa_block, CallSites(f)[k].instr_idx)
            \ CallSites(f)[k].returns

\* every call site lowered so far saves live_out_body(B, i) \ returns
SavedAtSsaPoint(f) ==
    \A k \in 1..Len(CallSites(f)) : SavesLiveOut(f, k)

\* C29: for every Call or CallIndirect at index i of SSA block B the
\* caller-save set is taken from the oracle at the point (B, i), also when an
\* earlier multi-tick call of B has moved the emission to a continuation block
C29_SaveSetAtSsaPoint ==
    \A f \in Started : AskedAtSsaPoint(f) /\ SavedAtSsaPoint(f)

\* the same for the calls that are lowered while the SSA block itself is
\* being filled
C29_SaveSetUnsplit ==
    \A f \in Started :
        \A k \in 1..Len(CallSites(f)) :
            CallSites(f)[k].at = CallSites(f)[k].ssa_block => SavesLiveOut(f, k)

\* a call lowered after an earlier call of its block has moved the emission
\* to a continuation, with a Push of a set that is not live_out_body(B, i)
\* without the returns
C29_SplitPushDiffers ==
    \E f \in Started :
        \E k \in 2..Len(CallSites(f)) :
            /\ CallSites(f)[k].ssa_block = CallSites(f)[k - 1].ssa_block
            /\ CallSites(f)[k - 1].cont # None
            /\ CallSites(f)[k].at = CallSites(f)[k - 1].cont[1]
            /\ CallSites(f)[k].pushed
            /\ ~SavesLiveOut(f, k)

\* the second call of a block has been lowered after a single-tick call, with
\* a variable to save that is live after it
C29_WitnessUnsplit ==
    \E f \in Started :
        \E k \in 2..Len(CallSites(f)) :
            /\ CallSites(f)[k].ssa_block = CallSites(f)[k - 1].ssa_block
            /\ CallSites(f)[k].at = CallSites(f)[k].ssa_block
            /\ CallSites(f)[k].instr_idx > 0
            /\ CallSites(f)[k].saved # <<>>

-----------------------------------------------------------------------------
(* The merged registers as a partition of the variables                     *)

RAMembers(i) == ra_sets[i].members

\* every variable of the function is a member of exactly one merged register
\* and no merged register is empty
RAPartition ==
    /\ UNION {RAMembers(i) : i \in 1..Len(ra_sets)} = FuncVars(ra_func)
    /\ \A i \in 1..Len(ra_sets) : RAMembers(i) # {}
    /\ \A i, j \in 1..Len(ra_sets) : i # j => RAMembers(i) \cap RAMembers(j) = {}

\* the final map is defined on the variables and separates exactly the
\* merged registers
RAMapFaithful ==
    /\ DOMAIN to_map(ra_sets) = FuncVars(ra_func)
    /\ \A x, y \in FuncVars(ra_func) :
          (to_map(ra_sets)[x] = to_map(ra_sets)[y])
              <=> (\E i \in 1..Len(ra_sets) : x \in RAMembers(i) /\ y \in RAMembers(i))

\* C30: at every point of the coalescing the merged registers are a partition
\* of the variables of the function into non-empty registers; a merge takes
\* the number of registers down by exactly one, joining two of them; the final
\* map gives two variables the same representative exactly when they are in
\* the same merged register
C30_Partition ==
    /\ [](ra_pc # "idle" => RAPartition)
    /\ [](ra_pc = "done" => RAMapFaithful)
    /\ [][ra_sets' # ra_sets =>
            /\ Len(ra_sets') = Len(ra_sets) - 1
            /\ \E i, j \in 1..Len(ra_sets) :
                  /\ i # j
                  /\ ra_sets'[Len(ra_sets')].members = RAMembers(i) \cup RAMembers(j)
                  /\ {ra_sets'[k].members : k \in 1..(Len(ra_sets') - 1)}
                        = {RAMembers(k) : k \in (1..Len(ra_sets)) \ {i, j}}]_vars

\* the analysis has ended after at least two merges, one register holding
\* three variables or more and some variable left alone
C30_Witness ==
    /\ ra_pc = "done"
    /\ Len(ra_sets) <= Cardinality(FuncVars(ra_func)) - 2
    /\ \E i \in 1..Len(ra_sets) : Cardinality(RAMembers(i)) >= 3
    /\ \E i \in 1..Len(ra_sets) : Cardinality(RAMembers(i)) = 1
    /\ \E x, y \in FuncVars(ra_func) : x # y /\ to_map(ra_sets)[x] = to_map(ra_sets)[y]

====
